---- MODULE Spec2Model ----
(***************************************************************************)
(* Multi-store shopping-list optimizer of smartlistas.                     *)
(*                                                                         *)
(* The state is the part of the database the optimizers read and write:    *)
(* the price history (precos), one generic shopping list with its stored   *)
(* allocation snapshot, one app shopping list, and the last response       *)
(* returned to a caller.  Money is counted in whole currency units and     *)
(* dates in whole days; the store directory and the city-centroid table    *)
(* are fixed.                                                              *)
(***************************************************************************)
EXTENDS Integers, Sequences, FiniteSets, TLC

VARIABLES
    precos,           \* table precos: set of price observations
    now,              \* the current day (datetime.now(UTC))
    shopping_list,    \* the generic ShoppingList row with its items
    optimized_items,  \* table optimized_shopping_items of that list
    app_list,         \* the AppShoppingList row with its items
    result,           \* the last response returned by an endpoint
    last_op,          \* the endpoint that produced the current state
    sessions,         \* the optimize calls in flight, each in its own
                      \* database session, and what a reader last fetched
    receipts          \* table cupons: the stored receipts

vars == <<precos, now, shopping_list, optimized_items, app_list, result, last_op,
          sessions, receipts>>

(***************************************************************************)
(* Generic helpers on sequences.                                           *)
(***************************************************************************)
Range(s) == {s[i] : i \in 1..Len(s)}

RECURSIVE SumSeq(_)
SumSeq(s) == IF s = <<>> THEN 0 ELSE Head(s) + SumSeq(Tail(s))

Max2(a, b) == IF a >= b THEN a ELSE b

SetMax(S) == CHOOSE x \in S : \A y \in S : y <= x

SetMin(S) == CHOOSE x \in S : \A y \in S : x <= y

\* The ascending sequence of a finite set of integers (Python sorted(set)).
RECURSIVE SortedSeq(_)
SortedSeq(S) == IF S = {} THEN <<>> ELSE <<SetMin(S)>> \o SortedSeq(S \ {SetMin(S)})

\* Optional values: <<>> is None, <<v>> is the value v.
None == <<>>
Some(v) == <<v>>

(***************************************************************************)
(* ItemPrice: one offer, that is the price of one list item in one store.  *)
(* Fields: item_id, canonical_id, store_id, price, price_date, quantity,   *)
(* subtotal.  A list of offers (item_prices) is a sequence, in the order   *)
(* the price query returned its rows.                                      *)
(***************************************************************************)
MakeItemPrice(item, row) ==
    [item_id |-> item.id, canonical_id |-> row.canonical_id,
     store_id |-> row.loja_id, price |-> row.preco_por_unidade,
     price_date |-> row.data_coleta, quantity |-> item.quantity,
     subtotal |-> row.preco_por_unidade * item.quantity]

\* Keys of the dict prices_by_item, in insertion order: the item ids of the
\* offers in order of first appearance.
RECURSIVE ItemIdsInOrder(_)
ItemIdsInOrder(ips) ==
    IF ips = <<>> THEN <<>>
    ELSE <<Head(ips).item_id>> \o
         ItemIdsInOrder(SelectSeq(Tail(ips), LAMBDA p : p.item_id # Head(ips).item_id))

\* prices_by_item[item_id]: the offers of one item, in list order.
PricesOf(ips, item_id) == SelectSeq(ips, LAMBDA p : p.item_id = item_id)

\* Python min(seq, key=price): the first element with the lowest price.
FirstMinIndex(s) ==
    LET First(m) == SetMin({i \in 1..Len(s) : s[i].price = m})
    IN  First(SetMin({s[i].price : i \in 1..Len(s)}))

MinByPrice(s) == s[FirstMinIndex(s)]

\* Python max(seq, key=price): the first element with the highest price.
MaxByPrice(s) ==
    LET First(m) == s[SetMin({i \in 1..Len(s) : s[i].price = m})]
    IN  First(SetMax({s[i].price : i \in 1..Len(s)}))

\* list.sort(key=price): stable ascending sort.
RECURSIVE SortByPrice(_)
SortByPrice(s) ==
    IF s = <<>> THEN <<>>
    ELSE LET Take(i) ==
                 <<s[i]>> \o SortByPrice(SubSeq(s, 1, i - 1) \o SubSeq(s, i + 1, Len(s)))
         IN  Take(FirstMinIndex(s))

\* Keys of an allocation dict (store_id -> items), in insertion order.
RECURSIVE StoreIdsInOrder(_)
StoreIdsInOrder(chosen) ==
    IF chosen = <<>> THEN <<>>
    ELSE <<Head(chosen).store_id>> \o
         StoreIdsInOrder(SelectSeq(Tail(chosen), LAMBDA p : p.store_id # Head(chosen).store_id))

\* The dict allocation[store_id].append(offer) built from the chosen offers
\* taken in order: a sequence of [store_id, items], in insertion order.
GroupByStore(chosen) ==
    LET Groups(keys) ==
            [k \in 1..Len(keys) |->
                [store_id |-> keys[k],
                 items |-> SelectSeq(chosen, LAMBDA p : p.store_id = keys[k])]]
    IN  Groups(StoreIdsInOrder(chosen))

\* Variant of SubtotalSum that adds unit prices, forgetting the quantities.
SubtotalSumOfPrices(items) == SumSeq([i \in 1..Len(items) |-> items[i].price])

SubtotalSum(items) == SumSeq([i \in 1..Len(items) |-> items[i].subtotal])

\* Variant of SortByTotalDesc that leaves the order as it is.
SortByTotalDescNot(s) == s

\* result.sort(key=total, reverse=True): stable descending sort.
RECURSIVE SortByTotalDesc(_)
SortByTotalDesc(s) ==
    IF s = <<>> THEN <<>>
    ELSE LET First(m) == SetMin({j \in 1..Len(s) : s[j].total = m})
             Take(i) ==
                 <<s[i]>> \o SortByTotalDesc(SubSeq(s, 1, i - 1) \o SubSeq(s, i + 1, Len(s)))
         IN  Take(First(SetMax({s[i].total : i \in 1..Len(s)})))

\* ShoppingOptimizer._allocation_to_result
AllocationToResult(allocation) ==
    LET Totals(nonEmpty) ==
            [k \in 1..Len(nonEmpty) |->
                [store_id |-> nonEmpty[k].store_id,
                 items |-> nonEmpty[k].items,
                 total |-> SubtotalSum(nonEmpty[k].items)]]
    IN  SortByTotalDesc(Totals(SelectSeq(allocation, LAMBDA a : a.items # <<>>)))

\* itertools.combinations(s, k), in its (lexicographic) order.
RECURSIVE Combinations(_, _)
Combinations(s, k) ==
    IF k = 0 THEN << <<>> >>
    ELSE IF Len(s) < k THEN <<>>
    ELSE LET WithHead(rest) == [i \in 1..Len(rest) |-> <<Head(s)>> \o rest[i]]
         IN  WithHead(Combinations(Tail(s), k - 1)) \o Combinations(Tail(s), k)

\* The combinations tried by _find_best_store_set: sizes k..max_stores.
RECURSIVE CombosFrom(_, _, _)
CombosFrom(s, k, max_stores) ==
    IF k > max_stores THEN <<>>
    ELSE Combinations(s, k) \o CombosFrom(s, k + 1, max_stores)

\* The offers of one item inside a set of stores.
InStores(ips, item_id, store_set) ==
    SelectSeq(PricesOf(ips, item_id), LAMBDA p : p.store_id \in store_set)

\* One pass of the inner loop of _find_best_store_set over a combination.
RECURSIVE ComboTotal(_, _, _)
ComboTotal(ips, items, combo_set) ==
    IF items = <<>> THEN 0
    ELSE LET Best(offers) == IF offers = <<>> THEN 0 ELSE MinByPrice(offers).subtotal
         IN  Best(InStores(ips, Head(items), combo_set))
               + ComboTotal(ips, Tail(items), combo_set)

ComboMissing(ips, items, combo_set) ==
    {it \in Range(items) : InStores(ips, it, combo_set) = <<>>}

\* Variant of BestStoreSetLoop in which a later combination of the same
\* coverage and the same total replaces the earlier one.
RECURSIVE BestStoreSetLoopLastWins(_, _, _, _)
BestStoreSetLoopLastWins(ips, items, combos, best) ==
    IF combos = <<>> THEN best
    ELSE LET Try(combo_set, missing, total, covered_count) ==
                 IF \/ covered_count > best.best_covered_count
                    \/ /\ covered_count = best.best_covered_count
                       /\ covered_count > 0
                       /\ (best.best_total = None \/ total <= best.best_total[1])
                 THEN [best_set |-> Some(combo_set), best_missing |-> missing,
                       best_total |-> Some(total), best_covered_count |-> covered_count]
                 ELSE best
             TryCombo(combo_set, missing) ==
                 Try(combo_set, missing, ComboTotal(ips, items, combo_set),
                     Len(items) - Cardinality(missing))
             TrySet(combo_set) == TryCombo(combo_set, ComboMissing(ips, items, combo_set))
         IN  BestStoreSetLoopLastWins(ips, items, Tail(combos), TrySet(Range(Head(combos))))

RECURSIVE BestStoreSetLoop(_, _, _, _)
BestStoreSetLoop(ips, items, combos, best) ==
    IF combos = <<>> THEN best
    ELSE LET Try(combo_set, missing, total, covered_count) ==
                 IF \/ covered_count > best.best_covered_count
                    \/ /\ covered_count = best.best_covered_count
                       /\ covered_count > 0
                       /\ (best.best_total = None \/ total < best.best_total[1])
                 THEN [best_set |-> Some(combo_set), best_missing |-> missing,
                       best_total |-> Some(total), best_covered_count |-> covered_count]
                 ELSE best
             TryCombo(combo_set, missing) ==
                 Try(combo_set, missing, ComboTotal(ips, items, combo_set),
                     Len(items) - Cardinality(missing))
             TrySet(combo_set) == TryCombo(combo_set, ComboMissing(ips, items, combo_set))
         IN  BestStoreSetLoop(ips, items, Tail(combos), TrySet(Range(Head(combos))))

\* ShoppingOptimizer._find_best_store_set
FindBestStoreSet(ips, store_ids, max_stores) ==
    BestStoreSetLoop(ips, ItemIdsInOrder(ips), CombosFrom(store_ids, 1, max_stores),
        [best_set |-> None, best_missing |-> {}, best_total |-> None,
         best_covered_count |-> -1])

(***************************************************************************)
(* Program constants of the optimizers.                                    *)
(***************************************************************************)
ExactMaxStores == 3          \* bounded exact search only when max_stores <= 3
ExactMaxCandidates == 15     \* ... and at most 15 candidate stores
DefaultMaxStores == 3        \* shopping_list.max_stores or 3
GenericLookbackDays == 30    \* ShoppingOptimizer.price_lookback_days
AppLookbackDays == 15        \* AppShoppingOptimizer.price_lookback_days

\* First pass of _optimize_allocation: each item's offers sorted by price,
\* the item goes to prices[0].
SortedPricesOf(ips, item_id) == SortByPrice(PricesOf(ips, item_id))

CheapestPerItem(ips) ==
    LET First(items) == [k \in 1..Len(items) |-> SortedPricesOf(ips, items[k])[1]]
    IN  First(ItemIdsInOrder(ips))

\* store_value of _redistribute: for each item with more than one offer, the
\* chosen store earns (second best subtotal - chosen subtotal).
ValuedItems(ips) ==
    SelectSeq(ItemIdsInOrder(ips), LAMBDA it : Len(PricesOf(ips, it)) > 1)

StoreValueKeys(ips) ==
    LET Chosen(items) == [k \in 1..Len(items) |-> SortedPricesOf(ips, items[k])[1]]
    IN  StoreIdsInOrder(Chosen(ValuedItems(ips)))

StoreValue(ips, store_id) ==
    LET Gain(sorted) == sorted[2].subtotal - sorted[1].subtotal
        Sum(items) == SumSeq([k \in 1..Len(items) |-> Gain(SortedPricesOf(ips, items[k]))])
    IN  Sum(SelectSeq(ValuedItems(ips),
                LAMBDA it : SortedPricesOf(ips, it)[1].store_id = store_id))

\* Stores that are the only source of price for some item.
RequiredStores(ips) ==
    {s \in {p.store_id : p \in Range(ips)} :
        \E it \in Range(ItemIdsInOrder(ips)) :
            {p.store_id : p \in Range(PricesOf(ips, it))} = {s}}

\* sorted(store_value.keys(), key=value, reverse=True): stable.
RECURSIVE RankStores(_, _)
RankStores(ips, keys) ==
    IF keys = <<>> THEN <<>>
    ELSE LET First(m) == SetMin({j \in 1..Len(keys) : StoreValue(ips, keys[j]) = m})
             Take(i) ==
                 <<keys[i]>> \o
                 RankStores(ips, SubSeq(keys, 1, i - 1) \o SubSeq(keys, i + 1, Len(keys)))
         IN  Take(First(SetMax({StoreValue(ips, keys[i]) : i \in 1..Len(keys)})))

RECURSIVE FillTopStores(_, _, _)
FillTopStores(top, ranked, max_stores) ==
    IF ranked = <<>> \/ Len(top) >= max_stores THEN top
    ELSE IF Head(ranked) \in Range(top)
         THEN FillTopStores(top, Tail(ranked), max_stores)
         ELSE FillTopStores(Append(top, Head(ranked)), Tail(ranked), max_stores)

TopStoresSet(ips, max_stores) ==
    LET Top(required) ==
            IF Cardinality(required) > max_stores
            THEN required
            ELSE Range(FillTopStores(SortedSeq(required),
                                     RankStores(ips, StoreValueKeys(ips)), max_stores))
    IN  Top(RequiredStores(ips))

\* Variant of Redistribute that keeps to the top stores: an item none of
\* them sells is dropped.
RedistributeWithinTop(ips, max_stores) ==
    LET InTop(top, it) ==
            SelectSeq(SortedPricesOf(ips, it), LAMBDA p : p.store_id \in top)
        New(top, items) ==
            [allocation |->
                GroupByStore([k \in 1..Len(items) |-> MinByPrice(InTop(top, items[k]))]),
             exceeded_store_limit |-> FALSE]
        Sold(top) == SelectSeq(ItemIdsInOrder(ips), LAMBDA it : InTop(top, it) # <<>>)
        Within(top) == New(top, Sold(top))
    IN  Within(TopStoresSet(ips, max_stores))

\* ShoppingOptimizer._redistribute: [allocation, exceeded_store_limit]
Redistribute(ips, max_stores) ==
    LET InTop(top, it) ==
            SelectSeq(SortedPricesOf(ips, it), LAMBDA p : p.store_id \in top)
        Choose(in_top, prices) == IF in_top # <<>> THEN MinByPrice(in_top) ELSE prices[1]
        New(top, items, required) ==
            [allocation |->
                GroupByStore([k \in 1..Len(items) |->
                    Choose(InTop(top, items[k]), SortedPricesOf(ips, items[k]))]),
             exceeded_store_limit |->
                \/ Cardinality(required) > max_stores
                \/ \E k \in 1..Len(items) : InTop(top, items[k]) = <<>>]
    IN  New(TopStoresSet(ips, max_stores), ItemIdsInOrder(ips), RequiredStores(ips))

\* The branch of _optimize_allocation that enumerates store combinations.
ExactAllocation(ips, max_stores) ==
    LET Best(items, best_set) ==
            GroupByStore([k \in 1..Len(items) |->
                MinByPrice(InStores(ips, items[k], best_set))])
        Kept(best_set, best_missing) ==
            Best(SelectSeq(ItemIdsInOrder(ips),
                     LAMBDA it : /\ it \notin best_missing
                                 /\ InStores(ips, it, best_set) # <<>>),
                 best_set)
        Of(best) == Kept(best.best_set[1], best.best_missing)
    IN  Of(FindBestStoreSet(ips, SortedSeq({p.store_id : p \in Range(ips)}), max_stores))

\* Variant of UsesExactSearch: the combination search is never taken, so
\* every list goes through cheapest-per-item and redistribution.
UsesExactSearchNever(ips, max_stores) == FALSE

UsesExactSearch(ips, max_stores) ==
    /\ 1 <= max_stores
    /\ max_stores <= ExactMaxStores
    /\ Cardinality({p.store_id : p \in Range(ips)}) <= ExactMaxCandidates
    /\ ips # <<>>            \* 'if best_store_set': some combination was tried

\* ShoppingOptimizer._optimize_allocation: [allocations, exceeded_store_limit]
OptimizeAllocation(ips, max_stores) ==
    LET Redone(r) == [allocations |-> AllocationToResult(r.allocation),
                      exceeded_store_limit |-> r.exceeded_store_limit]
        Cheapest(allocation) ==
            IF Len(allocation) > max_stores
            THEN Redone(Redistribute(ips, max_stores))
            ELSE [allocations |-> AllocationToResult(allocation),
                  exceeded_store_limit |-> FALSE]
    IN  IF UsesExactSearch(ips, max_stores)
        THEN [allocations |-> AllocationToResult(ExactAllocation(ips, max_stores)),
              exceeded_store_limit |-> FALSE]
        ELSE Cheapest(GroupByStore(CheapestPerItem(ips)))

\* _calculate_single_store_cost (the same code in both optimizers).
\* Variant of CompleteStores that takes every store as complete.
CompleteStoresAny(ips) == {p.store_id : p \in Range(ips)}

CompleteStores(ips) ==
    {s \in {p.store_id : p \in Range(ips)} :
        {p.item_id : p \in {q \in Range(ips) : q.store_id = s}}
            = {p.item_id : p \in Range(ips)}}

StoreTotal(ips, store_id) ==
    SubtotalSum(SelectSeq(ips, LAMBDA p : p.store_id = store_id))

MaxSubtotalOf(ips, item_id) ==
    SetMax({p.subtotal : p \in Range(PricesOf(ips, item_id))})

CalculateSingleStoreCost(ips) ==
    LET Worst(items) == SumSeq([k \in 1..Len(items) |-> MaxSubtotalOf(ips, items[k])])
        Cost(complete) ==
            IF complete = {} THEN Worst(ItemIdsInOrder(ips))
            ELSE SetMin({StoreTotal(ips, s) : s \in complete})
    IN  Cost(CompleteStores(ips))

\* _add_price_comparison followed by the total_worst_cost loop of optimize.
WorstUnit(ips, ip) ==
    LET Or(worst_price) == IF worst_price > 0 THEN worst_price ELSE ip.price
    IN  Or(MaxByPrice(PricesOf(ips, ip.item_id)).price)

AllocatedItems(allocations) ==
    IF allocations = <<>> THEN {}
    ELSE UNION {Range(allocations[k].items) : k \in 1..Len(allocations)}

RECURSIVE Flatten(_)
Flatten(allocations) ==
    IF allocations = <<>> THEN <<>>
    ELSE Head(allocations).items \o Flatten(Tail(allocations))

TotalWorstCost(ips, allocations) ==
    LET Sum(flat) ==
            SumSeq([k \in 1..Len(flat) |-> WorstUnit(ips, flat[k]) * flat[k].quantity])
    IN  Sum(Flatten(allocations))

TotalCost(allocations) == SumSeq([k \in 1..Len(allocations) |-> allocations[k].total])

(***************************************************************************)
(* AppShoppingOptimizer._greedy_allocate                                   *)
(***************************************************************************)
RECURSIVE ConcatSorted(_, _)
ConcatSorted(ips, items) ==
    IF items = <<>> THEN <<>>
    ELSE SortedPricesOf(ips, Head(items)) \o ConcatSorted(ips, Tail(items))

\* list(store_item_best.keys()): stores in the order the nested loop over
\* items and their sorted offers first meets them.
CandidateStores(ips) == StoreIdsInOrder(ConcatSorted(ips, ItemIdsInOrder(ips)))

\* store_item_best[store_id].get(item_id): None or the store's best offer.
StoreItemBest(ips, store_id, item_id) ==
    LET Best(here) == IF here = <<>> THEN None ELSE Some(MinByPrice(here))
    IN  Best(SelectSeq(SortedPricesOf(ips, item_id), LAMBDA p : p.store_id = store_id))

\* best_by_item after merging one store's offers (lines 413-416).
MergeStore(ips, best_by_item, store_id) ==
    LET Pick(cand, current) ==
            IF cand # None /\ (current = None \/ cand[1].price < current[1].price)
            THEN cand ELSE current
    IN  [it \in DOMAIN best_by_item |->
            Pick(StoreItemBest(ips, store_id, it), best_by_item[it])]

\* total and missing of one candidate store (lines 385-402); the score is
\* total + missing * penalty_missing.
PenaltyMissing == 1000000000

\* Variant of CandidateMissing that counts no missing item, so that a round
\* picks by total alone.
CandidateMissingNone(ips, best_by_item, store_id) == 0

CandidateMissing(ips, best_by_item, store_id) ==
    Cardinality({it \in DOMAIN best_by_item :
        best_by_item[it] = None /\ StoreItemBest(ips, store_id, it) = None})

CandidateTotal(ips, best_by_item, store_id) ==
    LET Sum(merged, items) ==
            SumSeq([k \in 1..Len(items) |->
                merged[items[k]][1].price * SortedPricesOf(ips, items[k])[1].quantity])
        Total(merged) ==
            Sum(merged, SelectSeq(ItemIdsInOrder(ips), LAMBDA it : merged[it] # None))
    IN  Total(MergeStore(ips, best_by_item, store_id))

\* Variant of Score in which a missing item costs one unit instead of
\* penalty_missing.
ScoreUnitPenalty(ips, best_by_item, sid) ==
    LET Limbs(n) == <<n \div PenaltyMissing, n % PenaltyMissing>>
    IN  Limbs(CandidateTotal(ips, best_by_item, sid)
                + CandidateMissing(ips, best_by_item, sid))

\* score = total + missing * penalty_missing, kept as the pair
\* <<score \div penalty_missing, score % penalty_missing>> so that the sum
\* stays inside the integers of the checker.
Score(ips, best_by_item, sid) ==
    LET Limbs(total, missing) ==
            <<missing + (total \div PenaltyMissing), total % PenaltyMissing>>
    IN  Limbs(CandidateTotal(ips, best_by_item, sid),
              CandidateMissing(ips, best_by_item, sid))

\* score < best_score
ScoreLess(ips, best_by_item, a, b) ==
    LET Less(x, y) == x[1] < y[1] \/ (x[1] = y[1] /\ x[2] < y[2])
    IN  Less(Score(ips, best_by_item, a), Score(ips, best_by_item, b))

\* The inner loop over candidate_stores: the first store of lowest score.
BestCandidate(ips, best_by_item, selected) ==
    LET First(open) ==
            IF open = <<>> THEN None
            ELSE Some(open[SetMin({j \in 1..Len(open) :
                     \A k \in 1..Len(open) :
                         ~ScoreLess(ips, best_by_item, open[k], open[j])})])
    IN  First(SelectSeq(CandidateStores(ips), LAMBDA sid : sid \notin Range(selected)))

\* Variant of GreedyLoop without the early stop: it keeps adding stores
\* until max_stores even when every item already has a price.
RECURSIVE GreedyLoopNoEarlyStop(_, _, _, _)
GreedyLoopNoEarlyStop(ips, rounds, selected, best_by_item) ==
    LET Stop == [selected |-> selected, best_by_item |-> best_by_item]
        Select(best) ==
            IF best = None THEN Stop
            ELSE GreedyLoopNoEarlyStop(ips, rounds - 1, Append(selected, best[1]),
                     MergeStore(ips, best_by_item, best[1]))
    IN  IF rounds = 0 THEN Stop
        ELSE Select(BestCandidate(ips, best_by_item, selected))

RECURSIVE GreedyLoop(_, _, _, _)
GreedyLoop(ips, rounds, selected, best_by_item) ==
    LET Stop == [selected |-> selected, best_by_item |-> best_by_item]
        Merged(best_store, merged) ==
            IF \A it \in DOMAIN merged : merged[it] # None
            THEN [selected |-> Append(selected, best_store), best_by_item |-> merged]
            ELSE GreedyLoop(ips, rounds - 1, Append(selected, best_store), merged)
        Select(best) ==
            IF best = None THEN Stop
            ELSE Merged(best[1], MergeStore(ips, best_by_item, best[1]))
    IN  IF rounds = 0 THEN Stop
        ELSE Select(BestCandidate(ips, best_by_item, selected))

\* [allocations, items_outside]
GreedyAllocate(ips, max_stores_in) ==
    LET Placed(fin, it) ==
            /\ fin.best_by_item[it] # None
            /\ fin.best_by_item[it][1].store_id \in Range(fin.selected)
        Chosen(fin, placed) == [k \in 1..Len(placed) |-> fin.best_by_item[placed[k]][1]]
        Build(items, fin) ==
            [allocations |->
                AllocationToResult(GroupByStore(
                    Chosen(fin, SelectSeq(items, LAMBDA it : Placed(fin, it))))),
             items_outside |-> SelectSeq(items, LAMBDA it : ~Placed(fin, it))]
        Run(items, candidates, max_stores) ==
            IF candidates = <<>>
            THEN [allocations |-> <<>>, items_outside |-> items]
            ELSE Build(items,
                     GreedyLoop(ips,
                         IF max_stores <= Len(candidates) THEN max_stores
                         ELSE Len(candidates),
                         <<>>, [it \in Range(items) |-> None]))
    IN  Run(ItemIdsInOrder(ips), CandidateStores(ips), Max2(1, max_stores_in))

(***************************************************************************)
(* The store directory (table lojas) and the city-centroid table.          *)
(* Coordinates are in hundredths of a degree.  Every coordinate of the     *)
(* model lies on one meridian, where the haversine distance is the earth   *)
(* radius times the latitude difference: 6371 km * pi / 180 = 111.195 km   *)
(* per degree.                                                             *)
(***************************************************************************)
MetersPerDegree == 111195    \* haversine_km: r = 6371.0 km, times pi / 180
BoxKmPerDegree == 111        \* bounding box: radius_km / 111.0
DefaultRadiusKm == 10        \* current_user.shopping_radius_km or 10.0

\* Centre of Belém, the city of the model's shoppers.
Belem == [lat |-> -145, lng |-> -4849]
Meridian == Belem.lng

StoreDir ==
    [s \in 1..9 |->
        CASE s = 1 -> [id |-> 1, nome_fantasia |-> "A", uf |-> "PA", cidade |-> "Belém",
                       lat |-> Some(-145), lng |-> Some(Meridian)]
          [] s = 2 -> [id |-> 2, nome_fantasia |-> "B", uf |-> "PA", cidade |-> "Belém",
                       lat |-> Some(-141), lng |-> Some(Meridian)]
          [] s = 3 -> [id |-> 3, nome_fantasia |-> "C", uf |-> "PA", cidade |-> "BELEM",
                       lat |-> None, lng |-> None]
          [] s = 4 -> [id |-> 4, nome_fantasia |-> "D", uf |-> "PA", cidade |-> "Ananindeua",
                       lat |-> Some(-136), lng |-> Some(Meridian)]
          [] s = 5 -> [id |-> 5, nome_fantasia |-> "E", uf |-> "PA", cidade |-> "Marabá",
                       lat |-> Some(-535), lng |-> Some(Meridian)]
          [] s = 6 -> [id |-> 6, nome_fantasia |-> "F", uf |-> "SP", cidade |-> "São Paulo",
                       lat |-> Some(-2355), lng |-> Some(Meridian)]
          [] s = 7 -> [id |-> 7, nome_fantasia |-> "", uf |-> "PA", cidade |-> "Belém",
                       lat |-> Some(-145), lng |-> Some(Meridian)]
          [] s = 8 -> [id |-> 8, nome_fantasia |-> "H", uf |-> "PA", cidade |-> "Belém",
                       lat |-> Some(-145), lng |-> None]
          [] s = 9 -> [id |-> 9, nome_fantasia |-> "I", uf |-> "PA", cidade |-> "MARABA",
                       lat |-> None, lng |-> None]]

StoreIds == DOMAIN StoreDir

\* Table city_locations, in the order a query returns its rows.
CityLocations ==
    << [uf |-> "PA", city |-> "Belém", latitude |-> -145, longitude |-> Meridian],
       [uf |-> "AC", city |-> "Rio Branco", latitude |-> -997, longitude |-> Meridian] >>

\* _normalize_city_key: strip, drop the accents (NFKD), casefold.
NormalizeCityKey(city) ==
    CASE city \in {"Belém", "BELEM", "belem", " Belém "} -> "belem"
      [] city \in {"Marabá", "maraba", "MARABA"} -> "maraba"
      [] city = "Ananindeua" -> "ananindeua"
      [] city = "São Paulo" -> "sao paulo"
      [] city = "Rio Branco" -> "rio branco"
      [] city = "Altamira" -> "altamira"
      [] OTHER -> city

\* _normalize_city: strip.
NormalizeCity(city) == IF city = " Belém " THEN "Belém" ELSE city

\* _normalize_uf: strip and upper-case.
NormalizeUf(uf) ==
    CASE uf = "pa" -> "PA"
      [] uf = " " -> ""
      [] OTHER -> uf

Abs(x) == IF x < 0 THEN -x ELSE x

\* haversine_km(a, b) <= radius_km, for two points of the meridian.
WithinRadius(a, b, radius_km) ==
    Abs(a.lat - b.lat) * MetersPerDegree <= radius_km * 100000

AvgLatLng(points) ==
    [lat |-> SumSeq([i \in 1..Len(points) |-> points[i].lat]) \div Len(points),
     lng |-> SumSeq([i \in 1..Len(points) |-> points[i].lng]) \div Len(points)]

StoreSeq == [i \in 1..Cardinality(StoreIds) |-> StoreDir[i]]

\* The coordinates of the stores of a query that keeps stores with both.
StorePoints(with) ==
    [i \in 1..Len(with) |-> [lat |-> with[i].lat[1], lng |-> with[i].lng[1]]]

\* Variant of ResolveCityCentroid that averages the stores before it looks
\* for a table entry under a tolerant comparison.
ResolveCityCentroidStoresFirst(uf, city) ==
    LET nuf == NormalizeUf(uf)
        ncity == NormalizeCity(city)
        wanted == NormalizeCityKey(ncity)
        exact == SelectSeq(CityLocations, LAMBDA r : r.uf = nuf /\ r.city = ncity)
        tolerant == SelectSeq(CityLocations,
                        LAMBDA r : r.uf = nuf /\ NormalizeCityKey(r.city) = wanted)
        loose == StorePoints(SelectSeq(StoreSeq,
                     LAMBDA st : /\ st.uf = nuf /\ NormalizeCityKey(st.cidade) = wanted
                                 /\ st.lat # None /\ st.lng # None))
    IN  IF nuf = "" \/ ncity = "" THEN None
        ELSE IF exact # <<>>
             THEN Some([lat |-> exact[1].latitude, lng |-> exact[1].longitude])
        ELSE IF loose # <<>> THEN Some(AvgLatLng(loose))
        ELSE IF tolerant # <<>>
             THEN Some([lat |-> tolerant[1].latitude, lng |-> tolerant[1].longitude])
        ELSE None

\* city_location.resolve_city_centroid: None or Some([lat, lng]).
ResolveCityCentroid(uf, city) ==
    LET nuf == NormalizeUf(uf)
        ncity == NormalizeCity(city)
        wanted == NormalizeCityKey(ncity)
        exact == SelectSeq(CityLocations, LAMBDA r : r.uf = nuf /\ r.city = ncity)
        tolerant == SelectSeq(CityLocations,
                        LAMBDA r : r.uf = nuf /\ NormalizeCityKey(r.city) = wanted)
        stores == StorePoints(SelectSeq(StoreSeq,
                      LAMBDA st : /\ st.uf = nuf /\ st.cidade = ncity
                                  /\ st.lat # None /\ st.lng # None))
        loose == StorePoints(SelectSeq(StoreSeq,
                     LAMBDA st : /\ st.uf = nuf /\ NormalizeCityKey(st.cidade) = wanted
                                 /\ st.lat # None /\ st.lng # None))
    IN  IF nuf = "" \/ ncity = "" THEN None
        ELSE IF exact # <<>>
             THEN Some([lat |-> exact[1].latitude, lng |-> exact[1].longitude])
        ELSE IF tolerant # <<>>
             THEN Some([lat |-> tolerant[1].latitude, lng |-> tolerant[1].longitude])
        ELSE IF stores # <<>> THEN Some(AvgLatLng(stores))
        ELSE IF loose # <<>> THEN Some(AvgLatLng(loose))
        ELSE None

\* The SQL filter of _eligible_stores_by_city_radius: UF, then either
\* coordinates inside the bounding box or no coordinates at all.
InBoundingBox(st, center, radius_km) ==
    /\ st.lat # None
    /\ st.lng # None
    /\ Abs(st.lat[1] - center.lat) * BoxKmPerDegree <= radius_km * 100
    /\ st.lng[1] = center.lng

StoreQuery(center, radius_km, user_uf) ==
    {s \in StoreIds :
        /\ (user_uf # "" => StoreDir[s].uf = user_uf)
        /\ \/ InBoundingBox(StoreDir[s], center, radius_km)
           \/ /\ StoreDir[s].lat = None
              /\ StoreDir[s].lng = None
              /\ StoreDir[s].uf = user_uf}

\* AppShoppingOptimizer._eligible_stores_by_city_radius
EligibleStoresByCityRadius(center, radius_km, user_uf) ==
    {s \in StoreQuery(center, radius_km, user_uf) :
        LET st == StoreDir[s]
        IN  IF st.lat = None \/ st.lng = None
            THEN /\ NormalizeUf(st.uf) # ""
                 /\ NormalizeCity(st.cidade) # ""
                 /\ ResolveCityCentroid(NormalizeUf(st.uf), NormalizeCity(st.cidade)) # None
                 /\ WithinRadius(center,
                        ResolveCityCentroid(NormalizeUf(st.uf), NormalizeCity(st.cidade))[1],
                        radius_km)
            ELSE WithinRadius(center, [lat |-> st.lat[1], lng |-> st.lng[1]], radius_km)}

(***************************************************************************)
(* The price query (_get_item_prices of both optimizers).  A row of precos *)
(* is [canonical_id, loja_id, data_coleta, preco_por_unidade].  The query  *)
(* has no ORDER BY: the order of its rows is the database's choice, taken  *)
(* here among the orders of RowOrders.                                     *)
(***************************************************************************)
RowOrders == {"loja", "canonical_desc"}

RowKey(r, ord) ==
    IF ord = "loja"
    THEN ((r.loja_id * 8 + r.canonical_id) * 64 + r.data_coleta) * 16 + r.preco_por_unidade
    ELSE 0 - (((r.canonical_id * 8 + r.loja_id) * 64 + r.data_coleta) * 16
                + r.preco_por_unidade)

RECURSIVE OrderRows(_, _)
OrderRows(rows, ord) ==
    IF rows = {} THEN <<>>
    ELSE LET Take(r) == <<r>> \o OrderRows(rows \ {r}, ord)
         IN  Take(CHOOSE x \in rows : \A y \in rows : RowKey(x, ord) <= RowKey(y, ord))

\* Variant of SubqueryRows that forgets the cutoff date.
SubqueryRowsNoCutoff(canonical_ids, cutoff, eligible) ==
    {r \in precos :
        /\ r.canonical_id \in canonical_ids
        /\ (eligible # None => r.loja_id \in eligible[1])}

\* The sub-query: per (canonical_id, loja_id) the latest data_coleta among
\* the rows that pass the filter; cutoff and eligible are None when the
\* caller does not filter on them.
SubqueryRows(canonical_ids, cutoff, eligible) ==
    {r \in precos :
        /\ r.canonical_id \in canonical_ids
        /\ (cutoff # None => r.data_coleta >= cutoff[1])
        /\ (eligible # None => r.loja_id \in eligible[1])}

LatestPriceRows(canonical_ids, cutoff, eligible) ==
    LET MaxDate(sub, q) ==
            SetMax({x.data_coleta : x \in {y \in sub :
                y.canonical_id = q.canonical_id /\ y.loja_id = q.loja_id}})
        Join(sub) ==
            {r \in precos :
                /\ r.loja_id \in StoreIds
                /\ \E q \in sub :
                    /\ q.canonical_id = r.canonical_id
                    /\ q.loja_id = r.loja_id
                    /\ r.data_coleta = MaxDate(sub, q)}
    IN  Join(SubqueryRows(canonical_ids, cutoff, eligible))

\* canonical_item_map = {item.canonical_id: item}: the last item wins.
CanonicalItem(items, canonical_id) ==
    LET Last(idx) == IF idx = {} THEN None ELSE Some(items[SetMax(idx)])
    IN  Last({i \in 1..Len(items) : items[i].canonical_id = canonical_id})

CanonicalIds(items) == {items[i].canonical_id : i \in 1..Len(items)}

\* _get_item_prices: the offers, in row order.
GetItemPrices(items, lookback_days, eligible, ord) ==
    LET Offers(mine) ==
            [k \in 1..Len(mine) |->
                MakeItemPrice(CanonicalItem(items, mine[k].canonical_id)[1], mine[k])]
        Mine(rows) ==
            Offers(SelectSeq(rows, LAMBDA r : CanonicalItem(items, r.canonical_id) # None))
    IN  Mine(OrderRows(LatestPriceRows(CanonicalIds(items),
                           Some(now - lookback_days), eligible), ord))

\* shopping_optimizer.py line 258 reads store.razao_social, an attribute the
\* Store model does not have, when nome_fantasia is empty: AttributeError.
GenericPriceQueryRaises(items) ==
    \E r \in LatestPriceRows(CanonicalIds(items), Some(now - GenericLookbackDays), None) :
        StoreDir[r.loja_id].nome_fantasia = ""

\* AppShoppingOptimizer._get_fallback_prices: per product the first
\* cheapest of the latest rows of the eligible stores, whatever their age.
GetFallbackPrices(canonical_ids, eligible, ord) ==
    LET Cand(r) == [canonical_id |-> r.canonical_id, store_id |-> r.loja_id,
                    price |-> r.preco_por_unidade, price_date |-> r.data_coleta]
        Best(cands) ==
            [c \in {cands[k].canonical_id : k \in 1..Len(cands)} |->
                MinByPrice(SelectSeq(cands, LAMBDA x : x.canonical_id = c))]
        Cands(rows) == Best([k \in 1..Len(rows) |-> Cand(rows[k])])
    IN  IF canonical_ids = <<>> \/ eligible = {} THEN <<>>
        ELSE Cands(OrderRows(LatestPriceRows(Range(canonical_ids), None, Some(eligible)),
                             ord))

(***************************************************************************)
(* Responses.  One record shape serves the three optimization endpoints;   *)
(* a field an endpoint does not return keeps its schema default.  The      *)
(* field request holds the inputs and locals of the call, which the        *)
(* response does not carry but the properties speak about.                 *)
(***************************************************************************)
StoredListIds == {1}        \* one stored list of each kind, with id 1
RequestedListIds == {1, 2}  \* the ids a caller asks for; no list has id 2

Percent(part, whole) == IF whole > 0 THEN (part * 100) \div whole ELSE 0

ItemIds(items) == [k \in 1..Len(items) |-> items[k].id]

\* The caller's side of a call: the endpoint, the list asked for (0 when the
\* call names no list) and the profile of the app user (NoUser for the
\* generic lists, which have no app user).
NoUser == [state |-> "", city |-> "", radius_km |-> 0]

Call(op, list_id, user) == [op |-> op, list_id |-> list_id, user |-> user]

Request(call, item_ids, max_stores, eligible, ips) ==
    [op |-> call.op, list_id |-> call.list_id, user |-> call.user,
     item_ids |-> item_ids, max_stores |-> max_stores,
     eligible |-> eligible, item_prices |-> ips]

FailureResult(message, items_without_price, request) ==
    [raised |-> FALSE, success |-> FALSE, message |-> <<message>>, allocations |-> <<>>,
     total_cost |-> 0, total_if_single_store |-> 0, savings |-> 0, savings_percent |-> 0,
     total_worst_cost |-> 0, potential_savings |-> 0, potential_savings_percent |-> 0,
     items_without_price |-> items_without_price,
     items_outside_selected_stores |-> <<>>, unoptimized_prices |-> <<>>,
     fallback_prices |-> <<>>, request |-> request]

\* An exception leaves the handler: the caller gets an error response.
RaisedResult(message, request) ==
    [FailureResult(message, <<>>, request) EXCEPT !.raised = TRUE]

NoResult == FailureResult("", <<>>, Request(Call("none", 0, NoUser), <<>>, 0, {}, <<>>))

\* The callers that may optimize at the same time, and the sessions when no
\* call is in flight and nothing was fetched.
Callers == {1, 2}

NoSessions ==
    [tx |-> [c \in Callers |-> [pc |-> "idle", result |-> NoResult, deleted |-> <<>>]],
     seen |-> [status |-> "", rows |-> <<>>]]

\* ShoppingOptimizer.optimize, up to the result it returns.
GenericOptimizeResult(list_id, ord) ==
    LET Success(item_ids, max_stores, ips, allocations, without_price, excluded_by_limit,
                total_cost, total_if_single_store, total_worst_cost) ==
            [raised |-> FALSE, success |-> TRUE,
             message |-> IF excluded_by_limit # <<>> /\ max_stores > 0
                         THEN <<"Lista otimizada em", Len(allocations), "limitado a",
                                max_stores, Len(excluded_by_limit)>>
                         ELSE <<"Lista otimizada em", Len(allocations)>>,
             allocations |-> allocations,
             total_cost |-> total_cost,
             total_if_single_store |-> total_if_single_store,
             savings |-> total_if_single_store - total_cost,
             savings_percent |-> Percent(total_if_single_store - total_cost,
                                         total_if_single_store),
             total_worst_cost |-> total_worst_cost,
             potential_savings |-> total_worst_cost - total_cost,
             potential_savings_percent |-> Percent(total_worst_cost - total_cost,
                                                   total_worst_cost),
             items_without_price |-> without_price \o excluded_by_limit,
             items_outside_selected_stores |-> <<>>, unoptimized_prices |-> <<>>,
             fallback_prices |-> <<>>,
             request |-> Request(Call("optimize", list_id, NoUser), item_ids, max_stores, StoreIds, ips)]
        Residual(item_ids, max_stores, ips, allocations, with_price, allocated) ==
            Success(item_ids, max_stores, ips, allocations,
                SelectSeq(item_ids, LAMBDA it : it \notin with_price),
                SelectSeq(item_ids, LAMBDA it : it \notin allocated /\ it \in with_price),
                TotalCost(allocations), CalculateSingleStoreCost(ips),
                TotalWorstCost(ips, allocations))
        Allocated(item_ids, max_stores, ips, allocations) ==
            Residual(item_ids, max_stores, ips, allocations,
                {p.item_id : p \in Range(ips)},
                {p.item_id : p \in AllocatedItems(allocations)})
        Priced(item_ids, max_stores, ips) ==
            IF ips = <<>>
            THEN FailureResult("Nenhum preço encontrado para os itens da lista", item_ids,
                     Request(Call("optimize", list_id, NoUser), item_ids, max_stores, StoreIds, ips))
            ELSE Allocated(item_ids, max_stores, ips,
                     OptimizeAllocation(ips, max_stores).allocations)
        Found(items, max_stores) ==
            IF items = <<>>
            THEN FailureResult("Lista vazia", <<>>, Request(Call("optimize", list_id, NoUser), <<>>, 0, {}, <<>>))
            ELSE IF GenericPriceQueryRaises(items)
            THEN RaisedResult("AttributeError",
                     Request(Call("optimize", list_id, NoUser), ItemIds(items), max_stores, StoreIds, <<>>))
            ELSE Priced(ItemIds(items), max_stores,
                     GetItemPrices(items, GenericLookbackDays, None, ord))
    IN  IF list_id \notin StoredListIds
        THEN FailureResult("Lista não encontrada", <<>>,
                 Request(Call("optimize", list_id, NoUser), <<>>, 0, {}, <<>>))
        ELSE Found(shopping_list.items,
                 IF shopping_list.max_stores = 0 THEN DefaultMaxStores
                 ELSE shopping_list.max_stores)

\* ShoppingOptimizer._save_optimization: the rows written to
\* optimized_shopping_items, in insertion order.
SnapshotRows(allocations) ==
    LET Rows(a) == [j \in 1..Len(a.items) |->
                      [store_id |-> a.store_id, item_id |-> a.items[j].item_id,
                       price |-> a.items[j].price, quantity |-> a.items[j].quantity,
                       subtotal |-> a.items[j].subtotal]]
        F[k \in 0..Len(allocations)] ==
            IF k = 0 THEN <<>> ELSE F[k - 1] \o Rows(allocations[k])
    IN  F[Len(allocations)]

\* The part shared by optimize_for_user_city and optimize_local_payload:
\* locate the shopper, find the eligible stores, query the prices.
UserCenter(user) == ResolveCityCentroid(user.state, user.city)

UserRadius(user) == IF user.radius_km = 0 THEN DefaultRadiusKm ELSE user.radius_km

AppSuccessResult(call, ips, max_stores, item_ids, eligible, clamp, ord) ==
    LET Unoptimized(outside) ==
            [k \in 1..Len(outside) |->
                LET Of(best) == [canonical_id |-> best.canonical_id,
                                 store_id |-> best.store_id, price |-> best.price,
                                 price_date |-> best.price_date]
                IN  Of(MinByPrice(PricesOf(ips, outside[k])))]
        Fallback(without_price, fallback_map) ==
            LET Entries(with_fallback) ==
                    [k \in 1..Len(with_fallback) |-> fallback_map[with_fallback[k]]]
            IN  Entries(SelectSeq(without_price, LAMBDA c : c \in DOMAIN fallback_map))
        Out(allocations, outside, without_price, total_cost, total_if_single_store,
            savings, total_worst_cost, potential) ==
            [raised |-> FALSE, success |-> TRUE,
             message |-> <<"Lista otimizada em", Len(allocations)>>,
             allocations |-> allocations,
             total_cost |-> total_cost,
             total_if_single_store |-> total_if_single_store,
             savings |-> savings,
             savings_percent |-> Percent(savings, total_if_single_store),
             total_worst_cost |-> IF clamp THEN total_worst_cost ELSE 0,
             potential_savings |-> IF clamp THEN potential ELSE 0,
             potential_savings_percent |->
                IF clamp THEN Percent(potential, total_worst_cost) ELSE 0,
             items_without_price |-> without_price,
             items_outside_selected_stores |->
                IF clamp THEN SortedSeq(Range(outside)) ELSE <<>>,
             unoptimized_prices |-> IF clamp THEN Unoptimized(outside) ELSE <<>>,
             fallback_prices |->
                IF clamp
                THEN Fallback(without_price, GetFallbackPrices(without_price, eligible, ord))
                ELSE <<>>,
             request |-> Request(call, item_ids, max_stores, eligible, ips)]
        Worst(allocated) == SumSeq([k \in 1..Len(allocated) |-> MaxSubtotalOf(ips, allocated[k])])
        Totals(allocations, outside, total_cost, total_if_single_store, total_worst_cost) ==
            Out(allocations, outside,
                SelectSeq(item_ids, LAMBDA it : it \notin {p.item_id : p \in Range(ips)}),
                total_cost, total_if_single_store,
                IF clamp THEN Max2(0, total_if_single_store - total_cost)
                ELSE total_if_single_store - total_cost,
                total_worst_cost, Max2(0, total_worst_cost - total_cost))
        Of(greedy) ==
            Totals(greedy.allocations, greedy.items_outside, TotalCost(greedy.allocations),
                CalculateSingleStoreCost(ips),
                Worst(SortedSeq({p.item_id : p \in AllocatedItems(greedy.allocations)})))
    IN  Of(GreedyAllocate(ips, max_stores))

\* The early returns common to both app endpoints, then the success path.
AppResult(call, items, max_stores, user, clamp, ord) ==
    LET Fail(message, eligible) ==
            FailureResult(message, ItemIds(items),
                Request(call, ItemIds(items), max_stores, eligible, <<>>))
        Priced(eligible, ips) ==
            IF ips = <<>>
            THEN Fail("Não encontramos preços recentes para os itens desta lista", eligible)
            ELSE AppSuccessResult(call, ips, max_stores, ItemIds(items), eligible, clamp, ord)
        InRadius(eligible) ==
            IF eligible = {}
            THEN Fail("Não encontramos supermercados dentro do seu raio de compra.", {})
            ELSE Priced(eligible, GetItemPrices(items, AppLookbackDays, Some(eligible), ord))
        Located(center) ==
            IF center = None
            THEN Fail("Não foi possível localizar sua cidade para calcular o raio.", {})
            ELSE InRadius(EligibleStoresByCityRadius(center[1], UserRadius(user), user.state))
    IN  IF user.state = "" \/ user.city = ""
        THEN Fail("Informe UF e cidade no seu cadastro para otimizar a lista.", {})
        ELSE Located(UserCenter(user))

\* AppShoppingOptimizer.optimize_for_user_city, up to the result it returns.
AppOptimizeResult(list_id, user, ord) ==
    IF list_id \notin StoredListIds
    THEN FailureResult("Lista não encontrada", <<>>,
             Request(Call("app_optimize", list_id, user), <<>>, 0, {}, <<>>))
    ELSE IF app_list.items = <<>>
    THEN FailureResult("Lista vazia", <<>>, Request(Call("app_optimize", list_id, user), <<>>, 0, {}, <<>>))
    ELSE AppResult(Call("app_optimize", list_id, user), app_list.items,
             IF app_list.max_stores = 0 THEN DefaultMaxStores ELSE app_list.max_stores,
             user, FALSE, ord)

\* optimize_local_payload: the temporary list has item id = canonical id.
TempItems(payload_items) ==
    [k \in 1..Len(payload_items) |->
        [id |-> payload_items[k].canonical_id,
         canonical_id |-> payload_items[k].canonical_id,
         quantity |-> payload_items[k].quantity]]

PayloadResult(payload_items, max_stores, user, ord) ==
    IF payload_items = <<>>
    THEN RaisedResult("Informe ao menos 1 item",
             Request(Call("payload", 0, user), <<>>, max_stores, {}, <<>>))
    ELSE AppResult(Call("payload", 0, user), TempItems(payload_items), max_stores, user, TRUE, ord)

(***************************************************************************)
(* Bounds of the model.                                                    *)
(***************************************************************************)
MaxPriceRows == 2    \* rows RecordPrice may add to precos
MaxTicks == 1        \* days Tick may add to the clock
MaxItemId == 2       \* item ids a list hands out (auto-increment)
MaxQuantity == 2     \* largest size of an item's quantity the model follows

Products == {1, 2}            \* canonical products of the catalogue
Quantities == {-1, 0, 1, 2}   \* quantities a client sends; the schema of the endpoint decides
PriceValues == {1, 2}         \* unit prices RecordPrice collects
Ages == {0, 15, 30}           \* age in days of a collected price
StartDay == 40                \* the day the model starts

\* The profiles (state, city, shopping_radius_km) of the app users.
Users ==
    { [state |-> "PA", city |-> "Belém", radius_km |-> 10],
      [state |-> "PA", city |-> "belem", radius_km |-> 0],
      [state |-> "PA", city |-> "Altamira", radius_km |-> 10],
      [state |-> "AC", city |-> "Rio Branco", radius_km |-> 10],
      [state |-> "", city |-> "Belém", radius_km |-> 10] }

NewItem(id, canonical_id, quantity) ==
    [id |-> id, canonical_id |-> canonical_id, quantity |-> quantity,
     best_price |-> None, best_store_id |-> None]

NewList ==
    [items |-> <<>>, next_id |-> 1, max_stores |-> DefaultMaxStores, status |-> "draft",
     total_estimated |-> None, total_savings |-> None, optimized_at |-> None,
     latitude |-> Some(Belem.lat), longitude |-> Some(Belem.lng),
     radius_km |-> DefaultRadiusKm]

ResetToDraft(sl) == IF sl.status = "optimized" THEN [sl EXCEPT !.status = "draft"] ELSE sl

IndexOfCanonical(items, canonical_id) ==
    {i \in 1..Len(items) : items[i].canonical_id = canonical_id}

IndexOfId(items, id) == {i \in 1..Len(items) : items[i].id = id}

(***************************************************************************)
(* Price collection and the clock.                                         *)
(***************************************************************************)
RecordPrice(c, s, age, p) ==
    /\ Cardinality(precos) < MaxPriceRows
    /\ precos' = precos \cup {[canonical_id |-> c, loja_id |-> s,
                               data_coleta |-> now - age, preco_por_unidade |-> p]}
    /\ last_op' = "record_price"
    /\ UNCHANGED <<now, shopping_list, optimized_items, app_list, result, sessions, receipts>>

Tick ==
    /\ now < StartDay + MaxTicks
    /\ now' = now + 1
    /\ last_op' = "tick"
    /\ UNCHANGED <<precos, shopping_list, optimized_items, app_list, result, sessions, receipts>>

(***************************************************************************)
(* Endpoints of the generic lists (routers/shopping.py).                   *)
(***************************************************************************)
\* ShoppingListItemCreate.quantity is a plain float: any number is accepted.
AddItem(c, q) ==
    /\ LET at == IndexOfCanonical(shopping_list.items, c)
       IN  IF at # {}
           THEN /\ shopping_list.items[SetMin(at)].quantity + q \in -MaxQuantity..MaxQuantity
                /\ shopping_list' = ResetToDraft(
                       [shopping_list EXCEPT !.items[SetMin(at)].quantity = @ + q])
           ELSE /\ shopping_list.next_id <= MaxItemId
                /\ shopping_list' = ResetToDraft(
                       [shopping_list EXCEPT
                           !.items = Append(@, NewItem(shopping_list.next_id, c, q)),
                           !.next_id = @ + 1])
    /\ last_op' = "add_item"
    /\ UNCHANGED <<precos, now, optimized_items, app_list, result, sessions, receipts>>

UpdateItem(id, q) ==
    /\ IndexOfId(shopping_list.items, id) # {}
    /\ shopping_list' = ResetToDraft(
           [shopping_list EXCEPT !.items[SetMin(IndexOfId(shopping_list.items, id))].quantity = q])
    /\ last_op' = "update_item"
    /\ UNCHANGED <<precos, now, optimized_items, app_list, result, sessions, receipts>>

\* Deleting the item deletes its optimized rows too (ON DELETE CASCADE).
RemoveItem(id) ==
    /\ IndexOfId(shopping_list.items, id) # {}
    /\ shopping_list' = ResetToDraft(
           [shopping_list EXCEPT !.items = SelectSeq(@, LAMBDA it : it.id # id)])
    /\ optimized_items' = SelectSeq(optimized_items, LAMBDA r : r.item_id # id)
    /\ last_op' = "remove_item"
    /\ UNCHANGED <<precos, now, app_list, result, sessions, receipts>>

UpdateShoppingList(max_stores) ==
    /\ shopping_list' = ResetToDraft([shopping_list EXCEPT !.max_stores = max_stores])
    /\ last_op' = "update_shopping_list"
    /\ UNCHANGED <<precos, now, optimized_items, app_list, result, sessions, receipts>>

\* Variant of OptimizeList that keeps the rows of the previous optimization.
OptimizeListKeepsRows(list_id, ord) ==
    /\ result' = GenericOptimizeResult(list_id, ord)
    /\ IF result'.success
       THEN /\ optimized_items' = optimized_items \o SnapshotRows(result'.allocations)
            /\ shopping_list' = [shopping_list EXCEPT
                   !.status = "optimized",
                   !.total_estimated = Some(result'.total_cost),
                   !.total_savings = Some(result'.savings),
                   !.optimized_at = Some(now)]
       ELSE UNCHANGED <<optimized_items, shopping_list>>
    /\ last_op' = "optimize"
    /\ UNCHANGED <<precos, now, app_list, sessions, receipts>>

\* Variant of OptimizeList that saves whatever the result is.
OptimizeListAlwaysSaves(list_id, ord) ==
    /\ result' = GenericOptimizeResult(list_id, ord)
    /\ optimized_items' = SnapshotRows(result'.allocations)
    /\ shopping_list' = [shopping_list EXCEPT
           !.status = "optimized",
           !.total_estimated = Some(result'.total_cost),
           !.total_savings = Some(result'.savings),
           !.optimized_at = Some(now)]
    /\ last_op' = "optimize"
    /\ UNCHANGED <<precos, now, app_list, sessions, receipts>>

\* ShoppingOptimizer.optimize with _save_optimization on success.
OptimizeList(list_id, ord) ==
    /\ result' = GenericOptimizeResult(list_id, ord)
    /\ IF result'.success
       THEN /\ optimized_items' = SnapshotRows(result'.allocations)
            /\ shopping_list' = [shopping_list EXCEPT
                   !.status = "optimized",
                   !.total_estimated = Some(result'.total_cost),
                   !.total_savings = Some(result'.savings),
                   !.optimized_at = Some(now)]
       ELSE UNCHANGED <<optimized_items, shopping_list>>
    /\ last_op' = "optimize"
    /\ UNCHANGED <<precos, now, app_list, sessions, receipts>>

\* The relationship ShoppingList.optimized_items has no order_by: the rows
\* come in the order the database returns them, taken here as the order of
\* insertion or its reverse.
SnapshotOrders == {"inserted", "reversed"}

\* get_optimization, up to the response it returns: the stored rows grouped
\* by store, with the totals the list keeps.
GetOptimizationResult(row_ord, ord) ==
    LET req(ips) ==
            Request(Call("get_optimization", 1, NoUser), ItemIds(shopping_list.items),
                    shopping_list.max_stores, StoreIds, ips)
        Rows == IF row_ord = "inserted" THEN optimized_items
                ELSE [k \in 1..Len(optimized_items) |->
                         optimized_items[Len(optimized_items) + 1 - k]]
        Stored(v) == IF v = None THEN 0 ELSE v[1]
        WorstOf(ips, row) ==
            IF PricesOf(ips, row.item_id) = <<>> THEN row.price
            ELSE WorstUnit(ips, row)
        Out(ips, max_stores, allocations, total_cost, total_worst_cost, savings) ==
            [raised |-> FALSE, success |-> TRUE,
             message |-> IF max_stores > 0 /\ Len(allocations) > max_stores
                         THEN <<"Lista otimizada em", Len(allocations),
                                "não foi possível limitar a", max_stores>>
                         ELSE <<"Lista otimizada em", Len(allocations)>>,
             allocations |-> allocations,
             total_cost |-> total_cost,
             total_if_single_store |-> total_cost + savings,
             savings |-> savings,
             savings_percent |-> IF savings = 0 THEN 0
                                 ELSE (savings * 100) \div (total_cost + savings),
             total_worst_cost |-> total_worst_cost,
             potential_savings |-> total_worst_cost - total_cost,
             potential_savings_percent |-> Percent(total_worst_cost - total_cost,
                                                   total_worst_cost),
             items_without_price |-> <<>>,
             items_outside_selected_stores |-> <<>>, unoptimized_prices |-> <<>>,
             fallback_prices |-> <<>>,
             request |-> req(ips)]
        Grouped(ips, max_stores, allocations) ==
            IF Stored(shopping_list.total_savings) # 0
               /\ TotalCost(allocations) + Stored(shopping_list.total_savings) = 0
            THEN RaisedResult("ZeroDivisionError", req(ips))
            ELSE Out(ips, max_stores, allocations, TotalCost(allocations),
                     SumSeq([k \in 1..Len(Rows) |-> WorstOf(ips, Rows[k]) * Rows[k].quantity]),
                     Stored(shopping_list.total_savings))
        Priced(ips) ==
            Grouped(ips,
                IF shopping_list.max_stores = 0 THEN DefaultMaxStores
                ELSE shopping_list.max_stores,
                SortByTotalDesc(
                    [k \in 1..Len(GroupByStore(Rows)) |->
                        [store_id |-> GroupByStore(Rows)[k].store_id,
                         items |-> GroupByStore(Rows)[k].items,
                         total |-> SubtotalSum(GroupByStore(Rows)[k].items)]]))
    IN  IF shopping_list.status # "optimized"
        THEN RaisedResult("Lista não foi otimizada", req(<<>>))
        ELSE IF GenericPriceQueryRaises(shopping_list.items)
                \/ \E k \in 1..Len(optimized_items) :
                      StoreDir[optimized_items[k].store_id].nome_fantasia = ""
        THEN RaisedResult("AttributeError", req(<<>>))
        ELSE Priced(GetItemPrices(shopping_list.items, GenericLookbackDays, None, ord))

\* GET /{list_id}/optimization: nothing is stored.
GetOptimization(row_ord, ord) ==
    /\ result' = GetOptimizationResult(row_ord, ord)
    /\ last_op' = "read_back"
    /\ UNCHANGED <<precos, now, shopping_list, optimized_items, app_list, sessions, receipts>>

(***************************************************************************)
(* Endpoints of the app lists (routers/app_shopping.py).                   *)
(***************************************************************************)
NewAppList ==
    [items |-> <<>>, next_id |-> 1, max_stores |-> DefaultMaxStores, status |-> "draft",
     total_estimated |-> None, total_savings |-> None, optimized_at |-> None]

\* The status is left as it is.
AppAddItem(c, q) ==
    /\ q > 0
    /\ LET at == IndexOfCanonical(app_list.items, c)
       IN  IF at # {}
           THEN /\ app_list.items[SetMin(at)].quantity + q <= MaxQuantity
                /\ app_list' = [app_list EXCEPT !.items[SetMin(at)].quantity = @ + q]
           ELSE /\ app_list.next_id <= MaxItemId
                /\ app_list' = [app_list EXCEPT
                       !.items = Append(@, NewItem(app_list.next_id, c, q)),
                       !.next_id = @ + 1]
    /\ last_op' = "app_add_item"
    /\ UNCHANGED <<precos, now, shopping_list, optimized_items, result, sessions, receipts>>

\* The unique constraint (list, canonical) rejects a product another item has.
AppUpdateItem(id, c, q) ==
    /\ q > 0
    /\ IndexOfId(app_list.items, id) # {}
    /\ IndexOfCanonical(app_list.items, c) \subseteq IndexOfId(app_list.items, id)
    /\ app_list' = [app_list EXCEPT
           !.items[SetMin(IndexOfId(app_list.items, id))].canonical_id = c,
           !.items[SetMin(IndexOfId(app_list.items, id))].quantity = q]
    /\ last_op' = "app_update_item"
    /\ UNCHANGED <<precos, now, shopping_list, optimized_items, result, sessions, receipts>>

AppDeleteItem(id) ==
    /\ IndexOfId(app_list.items, id) # {}
    /\ app_list' = [app_list EXCEPT !.items = SelectSeq(@, LAMBDA it : it.id # id)]
    /\ last_op' = "app_delete_item"
    /\ UNCHANGED <<precos, now, shopping_list, optimized_items, result, sessions, receipts>>

\* AppShoppingOptimizer._save_optimization: best price and store of each
\* allocated item; the other items keep what they had.
SaveBest(items, allocations) ==
    LET Set(item, ip) == [item EXCEPT !.best_price = Some(ip.price),
                                      !.best_store_id = Some(ip.store_id)]
        Save(item, chosen, at) == IF at = {} THEN item ELSE Set(item, chosen[SetMax(at)])
        Each(chosen) ==
            [k \in 1..Len(items) |->
                Save(items[k], chosen,
                     {j \in 1..Len(chosen) : chosen[j].item_id = items[k].id})]
    IN  Each(Flatten(allocations))

\* AppShoppingOptimizer.optimize_for_user_city with _save_optimization on success.
AppOptimizeList(list_id, user, ord) ==
    /\ result' = AppOptimizeResult(list_id, user, ord)
    /\ IF result'.success
       THEN app_list' = [app_list EXCEPT
                !.items = SaveBest(@, result'.allocations),
                !.status = "optimized",
                !.total_estimated = Some(result'.total_cost),
                !.total_savings = Some(result'.savings),
                !.optimized_at = Some(now)]
       ELSE UNCHANGED app_list
    /\ last_op' = "app_optimize"
    /\ UNCHANGED <<precos, now, shopping_list, optimized_items, sessions, receipts>>

\* optimize_local_payload: nothing is stored.
OptimizePayload(payload_items, max_stores, user, ord) ==
    /\ result' = PayloadResult(payload_items, max_stores, user, ord)
    /\ last_op' = "payload"
    /\ UNCHANGED <<precos, now, shopping_list, optimized_items, app_list, sessions, receipts>>

(***************************************************************************)
(* Specification Spec: prices of one product are collected and age while   *)
(* the generic list and the app list are optimized.                        *)
(***************************************************************************)
PriceProducts == {1}      \* the product whose prices are collected
PriceStores == {1, 6}     \* stores RecordPrice collects from (Belém, São Paulo)

TwoItems == <<NewItem(1, 1, 2), NewItem(2, 2, 1)>>

\* The two kinds of list are separate tables: one of them holds a list with
\* two items, the other an empty list.
InitLists ==
    \/ /\ shopping_list = [NewList EXCEPT !.items = TwoItems, !.next_id = 3]
       /\ app_list = NewAppList
    \/ /\ shopping_list = NewList
       /\ app_list = [NewAppList EXCEPT !.items = TwoItems, !.next_id = 3]

Init ==
    /\ precos = {}
    /\ now = StartDay
    /\ InitLists
    /\ optimized_items = <<>>
    /\ result = NoResult
    /\ last_op = "init"
    /\ sessions = NoSessions
    /\ receipts = {}

Next ==
    \/ \E c \in PriceProducts, s \in PriceStores, age \in Ages, p \in PriceValues :
          RecordPrice(c, s, age, p)
    \/ Tick
    \/ \E list_id \in RequestedListIds, ord \in RowOrders : OptimizeList(list_id, ord)
    \/ \E list_id \in RequestedListIds, user \in Users, ord \in RowOrders :
          AppOptimizeList(list_id, user, ord)

Spec == Init /\ [][Next]_vars

(***************************************************************************)
(* Specification SpecScenario: the two-item, two-store price tables of the *)
(* worked scenarios (Store A = store 1, Store B = store 2, both in Belém), *)
(* all collected today, optimized by the three optimizers and read back.   *)
(***************************************************************************)
ScenarioCells == Products \X {1, 2}
ScenarioPrices == [c \in Products |-> IF c = 1 THEN {8, 10} ELSE {5, 9}]
ScenarioMaxStores == {1, 2}
ScenarioUser == [state |-> "PA", city |-> "Belém", radius_km |-> 10]
ScenarioItems == <<NewItem(1, 1, 1), NewItem(2, 2, 1)>>
ScenarioPayload ==
    <<[canonical_id |-> 1, quantity |-> 1], [canonical_id |-> 2, quantity |-> 1]>>

TableRows(f) ==
    {[canonical_id |-> cell[1], loja_id |-> cell[2], data_coleta |-> StartDay,
      preco_por_unidade |-> f[cell]] : cell \in DOMAIN f}

ScenarioTables ==
    UNION {{TableRows(f) : f \in {g \in [offered -> UNION {ScenarioPrices[c] : c \in Products}] :
                                     \A cell \in offered : g[cell] \in ScenarioPrices[cell[1]]}} :
             offered \in SUBSET ScenarioCells}

InitScenario ==
    /\ precos \in ScenarioTables
    /\ now = StartDay
    /\ \E max_stores \in ScenarioMaxStores :
          \/ /\ shopping_list = [NewList EXCEPT !.items = ScenarioItems, !.next_id = 3,
                                                !.max_stores = max_stores]
             /\ app_list = NewAppList
          \/ /\ shopping_list = NewList
             /\ app_list = [NewAppList EXCEPT !.items = ScenarioItems, !.next_id = 3,
                                              !.max_stores = max_stores]
    /\ optimized_items = <<>>
    /\ result = NoResult
    /\ last_op = "init"
    /\ sessions = NoSessions
    /\ receipts = {}

NextScenario ==
    \/ \E ord \in RowOrders : OptimizeList(1, ord)
    \/ \E ord \in RowOrders : AppOptimizeList(1, ScenarioUser, ord)
    \/ \E max_stores \in ScenarioMaxStores, ord \in RowOrders :
          OptimizePayload(ScenarioPayload, max_stores, ScenarioUser, ord)
    \/ \E row_ord \in SnapshotOrders, ord \in RowOrders : GetOptimization(row_ord, ord)

SpecScenario == InitScenario /\ [][NextScenario]_vars

(***************************************************************************)
(* Specification SpecWide: a generic list of five items over six stores,   *)
(* with max_stores 4 or 5, so that the cheapest store of each item can     *)
(* give more stores than the list allows (redistribution).  Item i is      *)
(* sold by store i at 1; store 6 sells some of the items at 2; store 4     *)
(* may also sell item 5 at 7.                                              *)
(***************************************************************************)
WideProducts == 1..5
WideHub == [loja_id |-> 6, preco_por_unidade |-> 2]
WideExtra == [canonical_id |-> 5, loja_id |-> 4, preco_por_unidade |-> 7]
WideMaxStores == {4, 5}
WideItems == [i \in WideProducts |-> NewItem(i, i, 1)]

WideRow(c, s, p) ==
    [canonical_id |-> c, loja_id |-> s, data_coleta |-> StartDay, preco_por_unidade |-> p]

WideTables ==
    {{WideRow(c, c, 1) : c \in WideProducts}
        \cup {WideRow(c, WideHub.loja_id, WideHub.preco_por_unidade) : c \in hub}
        \cup extra :
     hub \in SUBSET WideProducts,
     extra \in {{}, {WideRow(WideExtra.canonical_id, WideExtra.loja_id,
                             WideExtra.preco_por_unidade)}}}

InitWide ==
    /\ precos \in WideTables
    /\ now = StartDay
    /\ \E max_stores \in WideMaxStores :
          shopping_list = [NewList EXCEPT !.items = WideItems, !.next_id = 6,
                                          !.max_stores = max_stores]
    /\ app_list = NewAppList
    /\ optimized_items = <<>>
    /\ result = NoResult
    /\ last_op = "init"
    /\ sessions = NoSessions
    /\ receipts = {}

NextWide == \E ord \in RowOrders : OptimizeList(1, ord)

SpecWide == InitWide /\ [][NextWide]_vars

(***************************************************************************)
(* Specification SpecExtra: a generic list of six items with max_stores 4  *)
(* or 5.  Stores 1 to 4 are the only sellers of items 1 to 4; items 5 and  *)
(* 6 are sold by some of the stores 1, 5 and 6, so that redistribution     *)
(* may have to add a store beyond the ones it selected.                    *)
(***************************************************************************)
ExtraItems == [i \in 1..6 |-> NewItem(i, i, 1)]

ExtraOffers ==
    {WideRow(5, 1, 2), WideRow(5, 5, 1), WideRow(5, 6, 2),
     WideRow(6, 1, 2), WideRow(6, 5, 1), WideRow(6, 6, 2)}

ExtraTables == {{WideRow(c, c, 1) : c \in 1..4} \cup some : some \in SUBSET ExtraOffers}

InitExtra ==
    /\ precos \in ExtraTables
    /\ now = StartDay
    /\ \E max_stores \in WideMaxStores :
          shopping_list = [NewList EXCEPT !.items = ExtraItems, !.next_id = 7,
                                          !.max_stores = max_stores]
    /\ app_list = NewAppList
    /\ optimized_items = <<>>
    /\ result = NoResult
    /\ last_op = "init"
    /\ sessions = NoSessions
    /\ receipts = {}

SpecExtra == InitExtra /\ [][NextWide]_vars

(***************************************************************************)
(* Specification SpecEdit: the owner of a generic list adds, changes and   *)
(* removes items and changes the store limit between optimizations, over a *)
(* fixed price table.                                                      *)
(***************************************************************************)

\* Product 1 is sold by both stores; product 2 by store 2, by store 1 or by
\* no store.
EditTables ==
    { {WideRow(1, 1, 1), WideRow(1, 2, 2), WideRow(2, 2, 1)},
      {WideRow(1, 1, 1), WideRow(1, 2, 2), WideRow(2, 1, 1)},
      {WideRow(1, 1, 1), WideRow(1, 2, 2)} }

InitEdit ==
    /\ precos \in EditTables
    /\ now = StartDay
    /\ shopping_list = NewList
    /\ app_list = NewAppList
    /\ optimized_items = <<>>
    /\ result = NoResult
    /\ last_op = "init"
    /\ sessions = NoSessions
    /\ receipts = {}

NextEdit ==
    \/ \E c \in Products, q \in Quantities : AddItem(c, q)
    \/ \E id \in 1..MaxItemId, q \in Quantities : UpdateItem(id, q)
    \/ \E id \in 1..MaxItemId : RemoveItem(id)
    \/ \E max_stores \in ScenarioMaxStores : UpdateShoppingList(max_stores)
    \/ \E ord \in RowOrders : OptimizeList(1, ord)

SpecEdit == InitEdit /\ [][NextEdit]_vars

(***************************************************************************)
(* Specification SpecAppEdit: an app user of Belém adds, changes and       *)
(* deletes items of an app list between optimizations, over the same       *)
(* price tables.                                                           *)
(***************************************************************************)
NextAppEdit ==
    \/ \E c \in Products, q \in Quantities : AppAddItem(c, q)
    \/ \E id \in 1..MaxItemId, c \in Products, q \in Quantities : AppUpdateItem(id, c, q)
    \/ \E id \in 1..MaxItemId : AppDeleteItem(id)
    \/ \E ord \in RowOrders : AppOptimizeList(1, ScenarioUser, ord)

SpecAppEdit == InitEdit /\ [][NextAppEdit]_vars

(***************************************************************************)
(* Concurrent optimize calls on one generic list.  Every request has its   *)
(* own session (get_db) on a PostgreSQL engine created without an          *)
(* isolation level, that is READ COMMITTED: a statement sees the rows      *)
(* committed when it starts, a DELETE waits for the rows another           *)
(* transaction has deleted and skips them once that transaction commits,   *)
(* and what a transaction wrote becomes visible at its commit.             *)
(***************************************************************************)
\* optimize up to the call of _save_optimization: the reads and the result.
SessionCompute(c, ord) ==
    /\ sessions.tx[c].pc = "idle"
    /\ LET r == GenericOptimizeResult(1, ord)
       IN  /\ sessions' = [sessions EXCEPT
                  !.tx[c].result = r,
                  !.tx[c].pc = IF r.success THEN "computed" ELSE "done"]
           /\ result' = IF r.success THEN result ELSE r
    /\ last_op' = "session_compute"
    /\ UNCHANGED <<precos, now, shopping_list, optimized_items, app_list, receipts>>

\* The DELETE of _save_optimization, executed at once inside the open
\* transaction: it takes the committed rows of the list, or waits when
\* another transaction has deleted them and has not committed yet.
SessionDelete(c) ==
    /\ sessions.tx[c].pc = "computed"
    /\ IF \E d \in Callers \ {c} :
             sessions.tx[d].pc = "deleted" /\ sessions.tx[d].deleted # <<>>
       THEN sessions' = [sessions EXCEPT !.tx[c].pc = "waiting"]
       ELSE sessions' = [sessions EXCEPT !.tx[c].pc = "deleted",
                                         !.tx[c].deleted = optimized_items]
    /\ last_op' = "session_delete"
    /\ UNCHANGED <<precos, now, shopping_list, optimized_items, app_list, result, receipts>>

\* The rest of _save_optimization: the new rows and the list's fields are
\* flushed and committed.  The rows this transaction deleted disappear,
\* the rows it did not see stay; a DELETE that waited for this transaction
\* finds its rows gone and deletes nothing.
SessionCommit(c) ==
    /\ sessions.tx[c].pc = "deleted"
    /\ LET r == sessions.tx[c].result
       IN  /\ optimized_items' =
                  (IF sessions.tx[c].deleted = <<>> THEN optimized_items ELSE <<>>)
                      \o SnapshotRows(r.allocations)
           /\ shopping_list' = [shopping_list EXCEPT
                  !.status = "optimized",
                  !.total_estimated = Some(r.total_cost),
                  !.total_savings = Some(r.savings),
                  !.optimized_at = Some(now)]
           /\ result' = r
    /\ sessions' = [sessions EXCEPT
           !.tx = [d \in Callers |->
                     IF d = c THEN [@[d] EXCEPT !.pc = "done"]
                     ELSE IF @[d].pc = "waiting" THEN [@[d] EXCEPT !.pc = "deleted"]
                     ELSE @[d]]]
    /\ last_op' = "session_commit"
    /\ UNCHANGED <<precos, now, app_list, receipts>>

\* get_optimization: one SELECT that joins the list with its rows.
ReadOptimization ==
    /\ sessions' = [sessions EXCEPT
           !.seen = [status |-> shopping_list.status, rows |-> optimized_items]]
    /\ last_op' = "get_optimization"
    /\ UNCHANGED <<precos, now, shopping_list, optimized_items, app_list, result, receipts>>

(***************************************************************************)
(* Specification SpecConcurrent: two callers optimize the same list of two *)
(* items at the same time while a reader fetches the stored optimization.  *)
(* The list was never optimized, or was optimized when it held item 1      *)
(* alone and got item 2 afterwards.                                        *)
(***************************************************************************)
EarlierRows ==
    <<[store_id |-> 1, item_id |-> 1, price |-> 1, quantity |-> 1, subtotal |-> 1]>>

InitConcurrent ==
    /\ precos \in EditTables
    /\ now = StartDay
    /\ shopping_list = [NewList EXCEPT !.items = ScenarioItems, !.next_id = 3]
    /\ app_list = NewAppList
    /\ optimized_items \in {<<>>, EarlierRows}
    /\ result = NoResult
    /\ last_op = "init"
    /\ sessions = NoSessions
    /\ receipts = {}

NextConcurrent ==
    \/ \E c \in Callers, ord \in RowOrders : SessionCompute(c, ord)
    \/ \E c \in Callers : SessionDelete(c)
    \/ \E c \in Callers : SessionCommit(c)
    \/ ReadOptimization

SpecConcurrent == InitConcurrent /\ [][NextConcurrent]_vars

(***************************************************************************)
(* Specification SpecPayload: fresh and old prices of two products are     *)
(* collected in stores of Belém and in a store of São Paulo while app      *)
(* users send local lists to optimize_local_payload.                       *)
(***************************************************************************)
PayloadAges == {0, 30}
PayloadStores == {1, 2, 6}   \* two stores of Belém and one of São Paulo
Payloads ==
    { <<>>,
      <<[canonical_id |-> 1, quantity |-> 1]>>,
      <<[canonical_id |-> 1, quantity |-> 1], [canonical_id |-> 2, quantity |-> 2]>> }

PayloadUsers ==
    { [state |-> "PA", city |-> "Belém", radius_km |-> 10],
      [state |-> "PA", city |-> "Altamira", radius_km |-> 10] }

InitPayload ==
    /\ precos = {}
    /\ now = StartDay
    /\ shopping_list = NewList
    /\ app_list = NewAppList
    /\ optimized_items = <<>>
    /\ result = NoResult
    /\ last_op = "init"
    /\ sessions = NoSessions
    /\ receipts = {}

NextPayload ==
    \/ \E c \in Products, s \in PayloadStores, age \in PayloadAges, p \in PriceValues :
          RecordPrice(c, s, age, p)
    \/ \E payload_items \in Payloads, max_stores \in ScenarioMaxStores, user \in PayloadUsers,
          ord \in RowOrders : OptimizePayload(payload_items, max_stores, user, ord)

SpecPayload == InitPayload /\ [][NextPayload]_vars

(***************************************************************************)
(* Specification SpecCentroid: the app list of the scenarios is optimized  *)
(* for users of several cities, and the centroid of a city is looked up    *)
(* the way the optimizer looks it up for its user and for stores without   *)
(* coordinates.                                                            *)
(***************************************************************************)
CentroidUfs == {"PA", "pa", "AC", "SP", "", " "}
CentroidCities ==
    {"Belém", "belem", "BELEM", " Belém ", "Ananindeua", "Marabá", "maraba", "MARABA",
     "Altamira", "Rio Branco", "São Paulo", ""}

\* A call of resolve_city_centroid(db, uf, city).
ResolveCentroid(uf, city) ==
    /\ result' = [op |-> "resolve_city_centroid", uf |-> uf, city |-> city,
                  centroid |-> ResolveCityCentroid(uf, city)]
    /\ last_op' = "resolve_city_centroid"
    /\ UNCHANGED <<precos, now, shopping_list, optimized_items, app_list, sessions, receipts>>

NextCentroid ==
    \/ \E uf \in CentroidUfs, city \in CentroidCities : ResolveCentroid(uf, city)
    \/ \E user \in Users, ord \in RowOrders : AppOptimizeList(1, user, ord)

\* The app list of the scenarios with max_stores 1, over the tables in
\* which both stores sell both products.
InitCentroid ==
    /\ InitScenario
    /\ Cardinality(precos) = Cardinality(ScenarioCells)
    /\ app_list.items # <<>>
    /\ app_list.max_stores = 1

SpecCentroid == InitCentroid /\ [][NextCentroid]_vars

(***************************************************************************)
(* Specification SpecGreedy: app users of Belém send a local list of four  *)
(* products to optimize_local_payload with max_stores 1 to 3, over every   *)
(* table in which each product is sold by some of three stores of Belém,   *)
(* by stores 1 and 2 at 2 and by store 3 at 1.                             *)
(***************************************************************************)
GreedyProducts == 1..4
GreedyStores == {1, 2, 3}
GreedyMaxStores == {1, 2, 3}
GreedyPayload == [c \in GreedyProducts |-> [canonical_id |-> c, quantity |-> 1]]

GreedyTables ==
    {{WideRow(cell[1], cell[2], IF cell[2] = 3 THEN 1 ELSE 2) : cell \in offered} :
        offered \in {o \in SUBSET (GreedyProducts \X GreedyStores) :
                        \A c \in GreedyProducts : \E st \in GreedyStores : <<c, st>> \in o}}

InitGreedy ==
    /\ precos \in GreedyTables
    /\ now = StartDay
    /\ shopping_list = NewList
    /\ app_list = NewAppList
    /\ optimized_items = <<>>
    /\ result = NoResult
    /\ last_op = "init"
    /\ sessions = NoSessions
    /\ receipts = {}

\* One request in a behaviour: the endpoint stores nothing, so a second
\* request would see what the first one saw.
NextGreedy ==
    /\ last_op = "init"
    /\ \E max_stores \in GreedyMaxStores, ord \in RowOrders :
          OptimizePayload(GreedyPayload, max_stores, ScenarioUser, ord)

SpecGreedy == InitGreedy /\ [][NextGreedy]_vars

(***************************************************************************)
(* Receipts (routers/receipts.py).  An access key is a string, that is a   *)
(* sequence of characters.  A stored receipt is a row of table cupons:     *)
(* chave_acesso (the primary key), status, and the number of its rows in   *)
(* itens_cupom, which are deleted with it (cascade "all, delete-orphan").  *)
(***************************************************************************)
ChaveLen == 44

AsciiDigits == {"0", "1", "2", "3", "4", "5", "6", "7", "8", "9"}

\* What \d matches in a str pattern: any Unicode decimal digit.
IsDigit(c) == c \in AsciiDigits \cup {"ARABIC-INDIC DIGIT ONE"}

Rep(c, n) == [i \in 1..n |-> c]

\* CHAVE_PATTERN.match(chave) for ^\d{44}$: 44 digits from the start, and
\* then the end of the string or a newline that ends the string.
ChavePatternMatches(chave) ==
    /\ Len(chave) >= ChaveLen
    /\ \A i \in 1..ChaveLen : IsDigit(chave[i])
    /\ \/ Len(chave) = ChaveLen
       \/ Len(chave) = ChaveLen + 1 /\ chave[ChaveLen + 1] = "\n"

\* extract_chave_from_text: the first run of 44 digits of the text, or None.
ExtractChave(text) ==
    LET starts == {i \in 1..(Len(text) - ChaveLen + 1) :
                      \A j \in i..(i + ChaveLen - 1) : IsDigit(text[j])}
    IN  IF starts = {} THEN None
        ELSE LET i == CHOOSE a \in starts : \A b \in starts : a <= b
             IN  Some(SubSeq(text, i, i + ChaveLen - 1))

\* The keys a client sends: two of 44 digits, the "12345" of the tests, 43
\* and 45 digits, 43 digits and a letter, 44 digits and a newline, and 44
\* digits other than 0-9.
Chaves ==
    {Rep("1", ChaveLen), Rep("2", ChaveLen), <<"1", "2", "3", "4", "5">>,
     Rep("1", ChaveLen - 1), Rep("1", ChaveLen + 1),
     Rep("1", ChaveLen - 1) \o <<"a">>, Rep("1", ChaveLen) \o <<"\n">>,
     Rep("ARABIC-INDIC DIGIT ONE", ChaveLen)}

StoredChaves == {r.chave_acesso : r \in receipts}

ReceiptOf(chave) == CHOOSE r \in receipts : r.chave_acesso = chave

ReceiptResponse(op, chave, status_code, detail) ==
    [op |-> op, chave |-> chave, status_code |-> status_code, detail |-> detail]

\* POST /receipts/import with chave_acesso, when the queue is unreachable:
\* the validator keeps the extracted key, and a new row is written as
\* pendente unless the key is already stored.
ImportReceipt(text) ==
    /\ LET extracted == ExtractChave(text)
       IN  IF extracted = None
           THEN /\ result' = ReceiptResponse("import_receipt", text, 422, "chave_acesso deve conter 44 dígitos numéricos")
                /\ UNCHANGED receipts
           ELSE LET chave == extracted[1]
                IN  IF chave \in StoredChaves
                    THEN /\ result' = ReceiptResponse("import_receipt", chave, 200, ReceiptOf(chave).status)
                         /\ UNCHANGED receipts
                    ELSE /\ result' = ReceiptResponse("import_receipt", chave, 200, "created")
                         /\ receipts' = receipts \cup
                                {[chave_acesso |-> chave, status |-> "pendente", itens |-> 0]}
    /\ last_op' = "import_receipt"
    /\ UNCHANGED <<precos, now, shopping_list, optimized_items, app_list, sessions>>

\* GET /receipts/{chave}
GetReceipt(chave) ==
    /\ result' =
          IF ~ChavePatternMatches(chave)
          THEN ReceiptResponse("get_receipt", chave, 400, "Chave de acesso inválida. Deve conter exatamente 44 dígitos numéricos.")
          ELSE IF chave \notin StoredChaves
          THEN ReceiptResponse("get_receipt", chave, 404, "Cupom não encontrado")
          ELSE ReceiptResponse("get_receipt", chave, 200, ReceiptOf(chave).status)
    /\ last_op' = "get_receipt"
    /\ UNCHANGED <<precos, now, shopping_list, optimized_items, app_list, sessions, receipts>>

\* DELETE /receipts/{chave}
DeleteReceipt(chave) ==
    /\ IF ~ChavePatternMatches(chave)
       THEN /\ result' = ReceiptResponse("delete_receipt", chave, 400, "Chave de acesso inválida")
            /\ UNCHANGED receipts
       ELSE IF chave \notin StoredChaves
       THEN /\ result' = ReceiptResponse("delete_receipt", chave, 404, "Cupom não encontrado")
            /\ UNCHANGED receipts
       ELSE /\ result' = ReceiptResponse("delete_receipt", chave, 200, "Cupom removido com sucesso")
            /\ receipts' = receipts \ {ReceiptOf(chave)}
    /\ last_op' = "delete_receipt"
    /\ UNCHANGED <<precos, now, shopping_list, optimized_items, app_list, sessions>>

\* The receipts a database may hold: rows of well-formed keys, pending or
\* processed, with or without item rows, at most one row for a key.
StoredReceiptRows ==
    [chave_acesso : {Rep("1", ChaveLen), Rep("2", ChaveLen)},
     status : {"pendente", "processado"}, itens : {0, 1}]

InitReceipts ==
    /\ precos = {}
    /\ now = StartDay
    /\ shopping_list = NewList
    /\ optimized_items = <<>>
    /\ app_list = NewAppList
    /\ result = NoResult
    /\ last_op = "init"
    /\ sessions = NoSessions
    /\ receipts \in {rs \in SUBSET StoredReceiptRows :
                        \A a, b \in rs : a.chave_acesso = b.chave_acesso => a = b}

NextReceipts ==
    \/ \E text \in Chaves : ImportReceipt(text)
    \/ \E chave \in Chaves : GetReceipt(chave)
    \/ \E chave \in Chaves : DeleteReceipt(chave)

SpecReceipts == InitReceipts /\ [][NextReceipts]_vars

(***************************************************************************)
(* Properties.  After an optimization step (last_op names the endpoint)    *)
(* precos, now and the lists are what the call read, and result is what it *)
(* returned.                                                               *)
(***************************************************************************)
OptimizeOps == {"optimize", "app_optimize", "payload"}

\* The ids of the items the call was given.
InputItemIds ==
    IF last_op = "optimize" THEN Range(ItemIds(shopping_list.items))
    ELSE IF last_op = "app_optimize" THEN Range(ItemIds(app_list.items))
    ELSE Range(result.request.item_ids)

AllocatedItemIds == {p.item_id : p \in AllocatedItems(result.allocations)}

AllocatedStoreIds == {result.allocations[k].store_id : k \in 1..Len(result.allocations)}

\* C1: after every successful optimization (generic list, app list, app
\* payload) every input item is in exactly one of: an allocation,
\* items_without_price, items_outside_selected_stores.
CoverageInvariant ==
    (last_op \in OptimizeOps /\ result.success) =>
        \A it \in InputItemIds :
            LET allocated == it \in AllocatedItemIds
                without == it \in Range(result.items_without_price)
                outside == it \in Range(result.items_outside_selected_stores)
            IN  /\ allocated \/ without \/ outside
                /\ ~(allocated /\ without)
                /\ ~(allocated /\ outside)
                /\ ~(without /\ outside)

\* The message mentions the store limit: its third part, after the number
\* of stores, is the text about the limit.
MessageFlagsLimit == Len(result.message) > 2 /\ result.message[3] = "limitado a"

\* C2: a successful result has at most max_stores allocations, unless the
\* stores that are the only source of some item outnumber max_stores, and
\* then the message says that the limit could not be respected.
CapInvariant ==
    (last_op \in OptimizeOps /\ result.success) =>
        \/ Len(result.allocations) <= result.request.max_stores
        \/ /\ Cardinality(RequiredStores(result.request.item_prices))
                 > result.request.max_stores
           /\ MessageFlagsLimit

\* C3: the savings of a result are never negative.
SavingsNonNegative == last_op \in OptimizeOps => result.savings >= 0

\* C4: when some store offers every priced item of the list, the
\* single-store total of the result is at least its total cost.
MonotonicBaseline ==
    (/\ last_op \in OptimizeOps
     /\ result.success
     /\ CompleteStores(result.request.item_prices) # {})
        => result.total_if_single_store >= result.total_cost

\* Scenario 2: Store A (store 1) sells item1 at 10 and item2 at 5, Store B
\* (store 2) sells item1 at 8 and item2 at 9; max_stores is 2.
Scenario2Table ==
    {[canonical_id |-> 1, loja_id |-> 1, data_coleta |-> StartDay, preco_por_unidade |-> 10],
     [canonical_id |-> 2, loja_id |-> 1, data_coleta |-> StartDay, preco_por_unidade |-> 5],
     [canonical_id |-> 1, loja_id |-> 2, data_coleta |-> StartDay, preco_por_unidade |-> 8],
     [canonical_id |-> 2, loja_id |-> 2, data_coleta |-> StartDay, preco_por_unidade |-> 9]}

Scenario2 == precos = Scenario2Table /\ result.request.max_stores = 2

\* <<item, store, unit price>> of every allocated offer.
AllocatedTriples ==
    {<<p.item_id, p.store_id, p.price>> : p \in AllocatedItems(result.allocations)}

Scenario2SplitResult ==
    /\ result.success
    /\ Len(result.allocations) = 2
    /\ AllocatedTriples = {<<1, 2, 8>>, <<2, 1, 5>>}
    /\ result.total_cost = 13
    /\ result.total_if_single_store = 15
    /\ result.savings = 2

Scenario2SingleStoreResult ==
    /\ result.success
    /\ Len(result.allocations) = 1
    /\ AllocatedTriples = {<<1, 1, 10>>, <<2, 1, 5>>}
    /\ result.total_cost = 15
    /\ result.total_if_single_store = 15
    /\ result.savings = 0

\* C5 as stated: in Scenario 2 both the generic optimizer and the app
\* (greedy) optimizer split the list, item1 to Store B and item2 to Store A,
\* with total_cost 13, total_if_single_store 15 and savings 2.
Scenario2BothSplit ==
    (Scenario2 /\ last_op \in {"optimize", "app_optimize"}) => Scenario2SplitResult

\* C5 amended: in Scenario 2 the generic optimizer splits the list (item1 to
\* Store B, item2 to Store A; 13, 15, savings 2), while the app greedy
\* allocation, for a stored list and for a payload, stops at Store A, which
\* covers both items: one allocation, total_cost 15, savings 0.
Scenario2GenericSplitsGreedyStops ==
    Scenario2 =>
        /\ last_op = "optimize" => Scenario2SplitResult
        /\ last_op \in {"app_optimize", "payload"} => Scenario2SingleStoreResult

Scenario2GreedyRan ==
    /\ Scenario2
    /\ last_op = "app_optimize"
    /\ result.total_cost = 15

\* Scenario 3: the generic optimizer ran with max_stores 1 on two items,
\* each offered by exactly one store, the two stores being different.
Scenario3 ==
    /\ last_op = "optimize"
    /\ result.request.max_stores = 1
    /\ Len(shopping_list.items) = 2
    /\ \A it \in InputItemIds : Len(PricesOf(result.request.item_prices, it)) = 1
    /\ Cardinality({p.store_id : p \in Range(result.request.item_prices)}) = 2

\* C6 as stated: in Scenario 3 both items are allocated, in two store
\* allocations, the message flags the limit and items_without_price is empty.
Scenario3Overflow ==
    Scenario3 =>
        /\ result.success
        /\ Len(result.allocations) = 2
        /\ AllocatedItemIds = InputItemIds
        /\ MessageFlagsLimit
        /\ result.items_without_price = <<>>

\* C6 amended: in Scenario 3 the combination search keeps the cap: one
\* store allocation holding the cheaper of the two items, the other item
\* reported in items_without_price, and the message saying that the result
\* is limited to 1 store with 1 item left out.
Scenario3KeepsCap ==
    Scenario3 =>
        /\ result.success
        /\ Len(result.allocations) = 1
        /\ Cardinality(AllocatedItemIds) = 1
        /\ Range(result.items_without_price) = InputItemIds \ AllocatedItemIds
        /\ result.total_cost = SetMin({p.subtotal : p \in Range(result.request.item_prices)})
        /\ result.message = <<"Lista otimizada em", 1, "limitado a", 1, 1>>

Scenario3Ran == Scenario3 /\ result.success /\ Len(result.items_without_price) = 1

\* The lookback window of the optimizer that ran, in days.
LookbackWindow == IF last_op = "optimize" THEN 30 ELSE 15

\* C7: every allocated offer is a price observation of precos that is not
\* older than the lookback window (30 days generic, 15 days app) and is
\* the latest such observation of its (canonical product, store) pair.
AllocatedOffersAreLatestInWindow ==
    last_op \in OptimizeOps =>
        \A p \in AllocatedItems(result.allocations) :
            /\ \E r \in precos :
                  /\ r.canonical_id = p.canonical_id
                  /\ r.loja_id = p.store_id
                  /\ r.data_coleta = p.price_date
                  /\ r.preco_por_unidade = p.price
            /\ p.price_date >= now - LookbackWindow
            /\ \A r \in precos :
                  (/\ r.canonical_id = p.canonical_id
                   /\ r.loja_id = p.store_id
                   /\ r.data_coleta >= now - LookbackWindow)
                      => r.data_coleta <= p.price_date

\* An allocated offer whose pair also has an older, cheaper observation
\* inside the window.
NewerOfferAllocated ==
    /\ last_op \in {"optimize", "app_optimize"}
    /\ \E p \in AllocatedItems(result.allocations) :
          \E r \in precos :
              /\ r.canonical_id = p.canonical_id
              /\ r.loja_id = p.store_id
              /\ r.data_coleta < p.price_date
              /\ r.data_coleta >= now - LookbackWindow
              /\ r.preco_por_unidade < p.price

\* Store s lies within radius_km of center; a store without coordinates
\* stands at the centroid of its city.
StoreWithin(center, radius_km, s) ==
    IF StoreDir[s].lat = None \/ StoreDir[s].lng = None
    THEN /\ ResolveCityCentroid(StoreDir[s].uf, StoreDir[s].cidade) # None
         /\ WithinRadius(center,
                ResolveCityCentroid(StoreDir[s].uf, StoreDir[s].cidade)[1], radius_km)
    ELSE WithinRadius(center, [lat |-> StoreDir[s].lat[1], lng |-> StoreDir[s].lng[1]],
             radius_km)

\* C8: every allocated store lies within the shopping radius of the
\* shopper: of the user's city centroid in the app optimizer, of the
\* list's latitude and longitude in the generic optimizer.
AllocatedStoresWithinRadius ==
    /\ last_op = "optimize" =>
          \A s \in AllocatedStoreIds :
              /\ shopping_list.latitude # None
              /\ shopping_list.longitude # None
              /\ StoreWithin([lat |-> shopping_list.latitude[1],
                              lng |-> shopping_list.longitude[1]],
                     shopping_list.radius_km, s)
    /\ last_op \in {"app_optimize", "payload"} =>
          \A s \in AllocatedStoreIds :
              /\ UserCenter(result.request.user) # None
              /\ StoreWithin(UserCenter(result.request.user)[1],
                     UserRadius(result.request.user), s)

\* The stores an app user may buy from: none when the profile has no UF or
\* city or the city cannot be located.
EligibleOf(user) ==
    IF user.state = "" \/ user.city = "" \/ UserCenter(user) = None THEN {}
    ELSE EligibleStoresByCityRadius(UserCenter(user)[1], UserRadius(user), user.state)

\* Some item of items has a price of at most days days in one of stores.
HasRecentPrice(items, stores, days) ==
    \E r \in precos :
        /\ r.canonical_id \in CanonicalIds(items)
        /\ r.loja_id \in stores
        /\ r.data_coleta >= now - days

\* The conditions under which a call cannot proceed, on the state it reads.
GenericCannotProceed(list_id) ==
    \/ list_id \notin StoredListIds
    \/ shopping_list.items = <<>>
    \/ ~HasRecentPrice(shopping_list.items, StoreIds, 30)

AppCannotProceed(list_id, user) ==
    \/ list_id \notin StoredListIds
    \/ app_list.items = <<>>
    \/ user.state = ""
    \/ user.city = ""
    \/ UserCenter(user) = None
    \/ EligibleOf(user) = {}
    \/ ~HasRecentPrice(app_list.items, EligibleOf(user), 15)

\* C9: a call that cannot proceed (list not found, list empty, missing UF
\* or city, city not located, no store in the radius, no recent price)
\* returns success = false without raising, with no allocations, zero
\* totals and every item of the list in items_without_price, and leaves
\* the stored lists, their items and the allocation snapshot as they were.
FailureLeavesListUnchanged ==
    [][(\/ /\ last_op' = "optimize"
           /\ GenericCannotProceed(result'.request.list_id)
        \/ /\ last_op' = "app_optimize"
           /\ AppCannotProceed(result'.request.list_id, result'.request.user))
       => /\ ~result'.success
          /\ ~result'.raised
          /\ result'.allocations = <<>>
          /\ result'.total_cost = 0
          /\ result'.total_if_single_store = 0
          /\ result'.savings = 0
          /\ result'.items_without_price =
                IF result'.request.list_id \notin StoredListIds THEN <<>>
                ELSE IF last_op' = "optimize" THEN ItemIds(shopping_list.items)
                ELSE ItemIds(app_list.items)
          /\ shopping_list' = shopping_list
          /\ app_list' = app_list
          /\ optimized_items' = optimized_items]_vars

\* A list optimized earlier whose prices have since left the window.
FailedAfterOptimized ==
    /\ last_op = "optimize"
    /\ ~result.success
    /\ result.items_without_price # <<>>
    /\ shopping_list.status = "optimized"
    /\ optimized_items # <<>>

\* C10: in the payload optimization an item with no price inside the
\* 15-day window in any eligible store, but with an older price in an
\* eligible store, is not allocated, is in items_without_price and has an
\* entry in fallback_prices; no allocated offer is older than the window.
StaleItemGetsFallback ==
    last_op = "payload" =>
        /\ \A c \in Range(result.request.item_ids) :
              LET mine == {r \in precos :
                              /\ r.canonical_id = c
                              /\ r.loja_id \in EligibleOf(result.request.user)}
              IN  (/\ mine # {}
                   /\ \A r \in mine : r.data_coleta < now - 15)
                     => /\ c \notin AllocatedItemIds
                        /\ c \in Range(result.items_without_price)
                        /\ \E k \in 1..Len(result.fallback_prices) :
                              result.fallback_prices[k].canonical_id = c
        /\ \A p \in AllocatedItems(result.allocations) : p.price_date >= now - 15

\* C11: in every result total_cost is the sum of the allocations' totals,
\* each allocation's total is the sum of the subtotals of its items, and
\* each subtotal is the unit price times the quantity.
SumConsistency ==
    last_op \in OptimizeOps =>
        /\ result.total_cost =
              SumSeq([k \in 1..Len(result.allocations) |-> result.allocations[k].total])
        /\ \A k \in 1..Len(result.allocations) :
              LET items == result.allocations[k].items
              IN  /\ result.allocations[k].total =
                        SumSeq([j \in 1..Len(items) |-> items[j].price * items[j].quantity])
                  /\ \A j \in 1..Len(items) :
                        items[j].subtotal = items[j].price * items[j].quantity

\* Two store allocations, one of them with an item of quantity 2.
TwoAllocationsWithQuantity ==
    /\ last_op = "payload"
    /\ Len(result.allocations) = 2
    /\ \E p \in AllocatedItems(result.allocations) : p.quantity = 2 /\ p.price = 2

\* What the caller receives: the result without the locals of the call.
Response(r) == [r EXCEPT !.request = NoResult.request]

\* The same call made again on the state the call left behind, with the
\* price query returning its rows in order ord.
Rerun(ord) ==
    IF last_op = "optimize" THEN GenericOptimizeResult(result.request.list_id, ord)
    ELSE AppOptimizeResult(result.request.list_id, result.request.user, ord)

\* C12: optimizing a stored list again with nothing changed in between
\* returns the identical result, whatever the order in which the price
\* query returns its rows and also when offers tie on price.
RepeatedOptimizeIsIdentical ==
    (last_op \in {"optimize", "app_optimize"} /\ result.success) =>
        \A ord \in RowOrders : Response(Rerun(ord)) = Response(result)

ItemEditOps == {"add_item", "update_item", "remove_item"}
AppItemEditOps == {"app_add_item", "app_update_item", "app_delete_item"}

\* C13: a successful optimization leaves the list in status optimized, and
\* an item edit (add, change, remove) accepted afterwards leaves it in
\* status draft, for the generic lists and for the app lists: a list whose
\* items were edited after its last successful optimization is never in
\* status optimized.
EditedListIsNotOptimized ==
    /\ (last_op = "optimize" /\ result.success) => shopping_list.status = "optimized"
    /\ (last_op = "app_optimize" /\ result.success) => app_list.status = "optimized"
    /\ last_op \in ItemEditOps => shopping_list.status # "optimized"
    /\ last_op \in AppItemEditOps => app_list.status # "optimized"

SnapshotRowOf(p) ==
    [store_id |-> p.store_id, item_id |-> p.item_id, price |-> p.price,
     quantity |-> p.quantity, subtotal |-> p.subtotal]

\* C14: after a successful optimization of a generic list the stored
\* snapshot has exactly one row for each allocated item, with the store,
\* price, quantity and subtotal of the result, and no other row (none of
\* an earlier optimization); the list has status optimized, its
\* total_estimated is the result's total_cost and its total_savings the
\* result's savings.
SnapshotMatchesResult ==
    (last_op = "optimize" /\ result.success) =>
        /\ \A p \in AllocatedItems(result.allocations) :
              Cardinality({k \in 1..Len(optimized_items) :
                              optimized_items[k].item_id = p.item_id}) = 1
        /\ Range(optimized_items) =
              {SnapshotRowOf(p) : p \in AllocatedItems(result.allocations)}
        /\ shopping_list.status = "optimized"
        /\ shopping_list.total_estimated = Some(result.total_cost)
        /\ shopping_list.total_savings = Some(result.savings)

\* A snapshot of two rows in two stores.
SnapshotOfTwoStores ==
    /\ last_op = "optimize"
    /\ result.success
    /\ Len(optimized_items) = 2
    /\ optimized_items[1].store_id # optimized_items[2].store_id
    /\ optimized_items[1].item_id # optimized_items[2].item_id

\* The best price and store an item should hold after an optimization
\* with the given allocations: those of its allocated offer, or none.
BestIs(item, allocations) ==
    LET mine == {p \in AllocatedItems(allocations) : p.item_id = item.id}
    IN  IF mine = {}
        THEN item.best_price = None /\ item.best_store_id = None
        ELSE \E p \in mine : /\ item.best_price = Some(p.price)
                             /\ item.best_store_id = Some(p.store_id)

\* C15: after a successful optimization every item of the list holds as
\* best_price and best_store_id the unit price and the store it was
\* allocated to, and an item that was not allocated holds none, for the
\* generic lists and for the app lists.
BestPriceMatchesAllocation ==
    /\ (last_op = "optimize" /\ result.success) =>
          \A k \in 1..Len(shopping_list.items) :
              BestIs(shopping_list.items[k], result.allocations)
    /\ (last_op = "app_optimize" /\ result.success) =>
          \A k \in 1..Len(app_list.items) :
              BestIs(app_list.items[k], result.allocations)

\* The highest unit price among all the offers of the item of offer p.
HighestUnitPrice(ips, p) ==
    SetMax({q.price : q \in {x \in Range(ips) : x.item_id = p.item_id}})

\* C16: total_worst_cost of optimize and of the payload endpoint is the sum
\* over the allocated items of the quantity times the highest unit price
\* among all the offers of the item; potential_savings is total_worst_cost
\* minus total_cost and is never negative; when every allocated item has a
\* single offer it is zero.
WorstCostAndPotentialSavings ==
    (last_op \in {"optimize", "payload"} /\ result.success) =>
        LET ips == result.request.item_prices
            flat == Flatten(result.allocations)
        IN  /\ result.total_worst_cost =
                  SumSeq([k \in 1..Len(flat) |->
                             flat[k].quantity * HighestUnitPrice(ips, flat[k])])
            /\ result.potential_savings = result.total_worst_cost - result.total_cost
            /\ result.potential_savings >= 0
            /\ (\A k \in 1..Len(flat) : Len(PricesOf(ips, flat[k].item_id)) = 1)
                   => result.potential_savings = 0

\* The stores with an offer for every item of the set wanted, the total of
\* a store over its offers, and the baseline they give: the lowest total
\* of such a store or, when there is none, the sum over the priced items
\* of the most expensive subtotal.
StoresOfferingAll(ips, wanted) ==
    {s \in {p.store_id : p \in Range(ips)} :
        \A it \in wanted : \E p \in Range(ips) : p.store_id = s /\ p.item_id = it}

OfferTotalOf(ips, s) ==
    LET mine == SelectSeq(ips, LAMBDA p : p.store_id = s)
    IN  SumSeq([k \in 1..Len(mine) |-> mine[k].price * mine[k].quantity])

IsBaselineOver(total, ips, wanted) ==
    LET priced == {p.item_id : p \in Range(ips)}
        complete == StoresOfferingAll(ips, wanted)
    IN  IF complete # {}
        THEN /\ \E s \in complete : total = OfferTotalOf(ips, s)
             /\ \A s \in complete : total <= OfferTotalOf(ips, s)
        ELSE total = SumSeq([k \in 1..Len(SortedSeq(priced)) |->
                        SetMax({p.subtotal : p \in {q \in Range(ips) :
                                    q.item_id = SortedSeq(priced)[k]}})])

AllocatedOnceAtLowestPrice ==
    (last_op \in OptimizeOps /\ result.success) =>
        LET flat == Flatten(result.allocations)
            selected == {result.allocations[k].store_id : k \in 1..Len(result.allocations)}
        IN  /\ \A j, k \in 1..Len(flat) : flat[j].item_id = flat[k].item_id => j = k
            /\ \A k \in 1..Len(flat) :
                  \A q \in Range(result.request.item_prices) :
                      (q.item_id = flat[k].item_id /\ q.store_id \in selected)
                          => flat[k].price <= q.price

\* C19: after any sequence of accepted add-item and update-item operations
\* every item of a generic list and of an app list has a quantity greater
\* than zero.
QuantitiesArePositive ==
    /\ \A k \in 1..Len(shopping_list.items) : shopping_list.items[k].quantity > 0
    /\ \A k \in 1..Len(app_list.items) : app_list.items[k].quantity > 0

\* C20: when two optimize calls for the same generic list run at the same
\* time, after both have finished the stored snapshot is the snapshot
\* written by exactly one of them, never rows of both, and no reader sees
\* the list with status optimized and an empty snapshot.
ConcurrentSnapshotIsOneCalls ==
    /\ (\A c \in Callers : sessions.tx[c].pc = "done" /\ sessions.tx[c].result.success)
          => \E c \in Callers :
                optimized_items = SnapshotRows(sessions.tx[c].result.allocations)
    /\ sessions.seen.status = "optimized" => sessions.seen.rows # <<>>

\* C21: in every result the store allocations are ordered by total in
\* non-increasing order, for the generic optimizer, the app optimizer and
\* the read-back of the stored result.
AllocationsByTotalDescending ==
    (last_op \in OptimizeOps \cup {"read_back"} /\ result.success) =>
        \A k \in 1..(Len(result.allocations) - 1) :
            result.allocations[k].total >= result.allocations[k + 1].total

\* A read-back of two allocations of different totals.
ReadBackOfTwoTotals ==
    /\ last_op = "read_back"
    /\ result.success
    /\ Len(result.allocations) = 2
    /\ result.allocations[1].total > result.allocations[2].total

\* A key as the interface documents it: exactly 44 digits 0-9.
WellFormedChave(chave) ==
    Len(chave) = ChaveLen /\ \A i \in 1..ChaveLen : chave[i] \in AsciiDigits

\* C22: after delete_receipt succeeds for a key the receipt is no longer
\* stored and a following get_receipt of that key reports 404; get_receipt
\* and delete_receipt report 404 for a well-formed key that is not stored
\* and 400 for a malformed key, and in both cases leave the stored receipts
\* unchanged.
ReceiptErrors ==
    [][/\ (last_op' = "delete_receipt" /\ result'.status_code = 200) =>
              result'.chave \notin {r.chave_acesso : r \in receipts'}
       /\ (/\ last_op = "delete_receipt" /\ result.status_code = 200
           /\ last_op' = "get_receipt" /\ result'.chave = result.chave) =>
              result'.status_code = 404
       /\ last_op' \in {"get_receipt", "delete_receipt"} =>
              /\ (WellFormedChave(result'.chave) /\ result'.chave \notin StoredChaves) =>
                     (result'.status_code = 404 /\ receipts' = receipts)
              /\ ~WellFormedChave(result'.chave) =>
                     (result'.status_code = 400 /\ receipts' = receipts)]_vars

\* The items with an offer inside a set of stores, and the cost of the set:
\* each of those items at its lowest price inside the set.
CoveredBy(ips, store_set) ==
    {p.item_id : p \in {q \in Range(ips) : q.store_id \in store_set}}

LowestIn(ips, it, store_set) ==
    LET offers == {q \in Range(ips) : q.item_id = it /\ q.store_id \in store_set}
    IN  CHOOSE p \in offers : \A q \in offers : p.price <= q.price

CostIn(ips, store_set) ==
    LET covered == SortedSeq(CoveredBy(ips, store_set))
    IN  SumSeq([k \in 1..Len(covered) |-> LowestIn(ips, covered[k], store_set).subtotal])

\* The order in which sets of stores are enumerated: fewer stores first,
\* then ascending store ids.
EnumeratedBefore(a, b) ==
    LET sa == SortedSeq(a)
        sb == SortedSeq(b)
    IN  \/ Cardinality(a) < Cardinality(b)
        \/ /\ Cardinality(a) = Cardinality(b)
           /\ \E k \in 1..Len(sa) :
                 /\ sa[k] < sb[k]
                 /\ \A j \in 1..(k - 1) : sa[j] = sb[j]

\* The set of at most max_stores stores with the largest coverage, then the
\* lowest cost, then the earliest place in the enumeration.
BestSetOf(ips, max_stores) ==
    LET sets == {s \in SUBSET {p.store_id : p \in Range(ips)} :
                    Cardinality(s) \in 1..max_stores}
        Beats(a, b) ==
            \/ Cardinality(CoveredBy(ips, a)) > Cardinality(CoveredBy(ips, b))
            \/ /\ Cardinality(CoveredBy(ips, a)) = Cardinality(CoveredBy(ips, b))
               /\ \/ CostIn(ips, a) < CostIn(ips, b)
                  \/ CostIn(ips, a) = CostIn(ips, b) /\ EnumeratedBefore(a, b)
    IN  CHOOSE a \in sets : \A b \in sets \ {a} : Beats(a, b)

ExactSearchApplies ==
    /\ last_op = "optimize"
    /\ result.success
    /\ result.request.max_stores \in 1..ExactMaxStores
    /\ Cardinality({p.store_id : p \in Range(result.request.item_prices)}) <= ExactMaxCandidates

\* C23: with at most 15 candidate stores and 1 <= max_stores <= 3 the generic
\* allocation covers as many items as any set of at most max_stores stores
\* can, at the lowest cost among the sets of that coverage (each covered item
\* at its lowest price inside the set), from the first such set in the
\* enumeration (fewer stores first, then ascending ids); and with
\* max_stores = 1 and every store offering every item, savings is 0.
ExactSearchIsOptimal ==
    ExactSearchApplies =>
        LET ips == result.request.item_prices
            best == BestSetOf(ips, result.request.max_stores)
        IN  /\ AllocatedItemIds = CoveredBy(ips, best)
            /\ AllocatedStoreIds \subseteq best
            /\ \A p \in AllocatedItems(result.allocations) :
                  p.price = LowestIn(ips, p.item_id, best).price
            /\ result.total_cost = CostIn(ips, best)
            /\ (/\ result.request.max_stores = 1
                /\ \A s \in {p.store_id : p \in Range(ips)} :
                      CoveredBy(ips, {s}) = CoveredBy(ips, {p.store_id : p \in Range(ips)}))
               => result.savings = 0

\* An exact search in which another set of stores has the coverage and the
\* cost of the chosen one, and one in which no set covers every item.
ExactSearchBreaksTie ==
    /\ ExactSearchApplies
    /\ LET ips == result.request.item_prices
           best == BestSetOf(ips, result.request.max_stores)
       IN  /\ \E b \in SUBSET {p.store_id : p \in Range(ips)} :
                 /\ Cardinality(b) \in 1..result.request.max_stores
                 /\ b \cap best = {}
                 /\ CoveredBy(ips, b) = CoveredBy(ips, best)
                 /\ CostIn(ips, b) = CostIn(ips, best)
           /\ Cardinality(CoveredBy(ips, best)) >= 2

\* The total of a set of stores: each item priced in the set at its lowest
\* price in the set, times the quantity asked.
TotalOver(ips, store_set) == CostIn(ips, store_set)

UnpricedIn(ips, store_set) == {p.item_id : p \in Range(ips)} \ CoveredBy(ips, store_set)

\* The store a round picks after the stores of selected: among the stores
\* not yet selected, fewest items left without a price, then lowest total,
\* then first in iteration order.
RoundChoice(ips, selected) ==
    LET open == SelectSeq(CandidateStores(ips), LAMBDA sid : sid \notin Range(selected))
        With(sid) == Range(selected) \cup {sid}
        Better(a, b) ==
            \/ Cardinality(UnpricedIn(ips, With(a))) < Cardinality(UnpricedIn(ips, With(b)))
            \/ /\ Cardinality(UnpricedIn(ips, With(a))) = Cardinality(UnpricedIn(ips, With(b)))
               /\ TotalOver(ips, With(a)) < TotalOver(ips, With(b))
    IN  open[CHOOSE j \in 1..Len(open) :
                /\ \A k \in 1..Len(open) : ~Better(open[k], open[j])
                /\ \A i \in 1..(j - 1) : \E k \in 1..Len(open) : Better(open[k], open[i])]

\* The stores selected by rounds that stop after the given number of
\* selections or as soon as every priced item has a price.
RECURSIVE RoundsOf(_, _, _)
RoundsOf(ips, rounds, selected) ==
    IF rounds = 0 \/ Len(selected) = Len(CandidateStores(ips)) THEN selected
    ELSE LET next == Append(selected, RoundChoice(ips, selected))
         IN  IF UnpricedIn(ips, Range(next)) = {} THEN next
             ELSE RoundsOf(ips, rounds - 1, next)

GreedyRan ==
    /\ last_op \in {"app_optimize", "payload"}
    /\ result.success
    /\ result.request.item_prices # <<>>

\* C24: each greedy round picks the store not yet selected that leaves the
\* fewest items without a price and, among those, gives the lowest total with
\* every item at its best price over the selected stores and the candidate,
\* the first in iteration order on equal scores; rounds stop after
\* max(1, max_stores) selections or once every priced item has a price.
GreedyRoundsChoice ==
    GreedyRan =>
        LET ips == result.request.item_prices
            sel == Range(RoundsOf(ips, Max2(1, result.request.max_stores), <<>>))
        IN  /\ AllocatedStoreIds \subseteq sel
            /\ AllocatedItemIds = CoveredBy(ips, sel)
            /\ \A p \in AllocatedItems(result.allocations) :
                  p.price = LowestIn(ips, p.item_id, sel).price
            /\ \A s \in sel : \E p \in Range(ips) : p.store_id = s

\* Two rounds, the first of which picked a store that prices more items
\* than a cheaper candidate does.
FewerUnpricedBeatsCheaper ==
    /\ GreedyRan
    /\ LET ips == result.request.item_prices
           sel == RoundsOf(ips, Max2(1, result.request.max_stores), <<>>)
       IN  /\ Len(sel) = 2
           /\ \E s \in Range(CandidateStores(ips)) :
                 /\ Cardinality(UnpricedIn(ips, {s})) > Cardinality(UnpricedIn(ips, {sel[1]}))
                 /\ TotalOver(ips, {s}) < TotalOver(ips, {sel[1]})

\* The generic optimizer went through redistribution: no combination search
\* and more stores in the cheapest-per-item assignment than max_stores.
RedistributionPath ==
    /\ last_op = "optimize"
    /\ result.success
    /\ LET ips == result.request.item_prices
           max_stores == result.request.max_stores
       IN  /\ ~(/\ max_stores \in 1..ExactMaxStores
                /\ Cardinality({p.store_id : p \in Range(ips)}) <= ExactMaxCandidates)
           /\ Cardinality({p.store_id : p \in Range(CheapestPerItem(ips))}) > max_stores

\* C25: on the redistribution path every item with at least one offer is
\* allocated, and every store that is the only seller of some item is among
\* the allocations, even when that exceeds max_stores.
RedistributionKeepsItemsAndRequiredStores ==
    RedistributionPath =>
        LET ips == result.request.item_prices
        IN  /\ AllocatedItemIds = {p.item_id : p \in Range(ips)}
            /\ \A it \in {p.item_id : p \in Range(ips)} :
                  LET sellers == {p.store_id : p \in {q \in Range(ips) : q.item_id = it}}
                  IN  Cardinality(sellers) = 1 => sellers \subseteq AllocatedStoreIds

\* A redistribution that ends with more allocations than max_stores while
\* some item has more than one seller.
RedistributionExceedsLimit ==
    /\ RedistributionPath
    /\ Len(result.allocations) > result.request.max_stores
    /\ LET ips == result.request.item_prices
       IN  \E it \in {p.item_id : p \in Range(ips)} :
              Cardinality({p.store_id : p \in {q \in Range(ips) : q.item_id = it}}) > 1

\* An app optimization that computed the eligible stores of its user.
EligibilityComputed ==
    /\ last_op \in {"app_optimize", "payload"}
    /\ ~result.raised
    /\ result.request.user.state # ""
    /\ result.request.user.city # ""
    /\ UserCenter(result.request.user) # None
    /\ result.request.item_ids # <<>>

\* C26: the eligible stores of a user centre, radius and UF are exactly the
\* stores of that UF within radius_km of the centre, a store standing at its
\* own coordinates when it has both and at the resolved centroid of its city
\* when it lacks latitude, longitude or both; a store without coordinates
\* whose city centroid cannot be resolved is not eligible.
EligibleIsWithinRadius ==
    EligibilityComputed =>
        result.request.eligible =
            {s \in StoreIds :
                /\ StoreDir[s].uf = result.request.user.state
                /\ StoreWithin(UserCenter(result.request.user)[1],
                       UserRadius(result.request.user), s)}

\* The table entries and the stores with coordinates that match a UF and a
\* city, exactly or ignoring accents and case.
TableEntries(uf, city, tolerant) ==
    {r \in Range(CityLocations) :
        /\ r.uf = NormalizeUf(uf)
        /\ IF tolerant THEN NormalizeCityKey(r.city) = NormalizeCityKey(NormalizeCity(city))
           ELSE r.city = NormalizeCity(city)}

LocatedStores(uf, city, tolerant) ==
    {s \in StoreIds :
        /\ StoreDir[s].uf = NormalizeUf(uf)
        /\ StoreDir[s].lat # None
        /\ StoreDir[s].lng # None
        /\ IF tolerant
           THEN NormalizeCityKey(StoreDir[s].cidade) = NormalizeCityKey(NormalizeCity(city))
           ELSE StoreDir[s].cidade = NormalizeCity(city)}

IsAverageOf(centroid, stores) ==
    LET ids == SortedSeq(stores)
    IN  /\ centroid # None
        /\ centroid[1].lat = SumSeq([k \in 1..Len(ids) |-> StoreDir[ids[k]].lat[1]]) \div Len(ids)
        /\ centroid[1].lng = SumSeq([k \in 1..Len(ids) |-> StoreDir[ids[k]].lng[1]]) \div Len(ids)

IsEntryOf(centroid, entries) ==
    /\ centroid # None
    /\ \E r \in entries : centroid[1] = [lat |-> r.latitude, lng |-> r.longitude]

\* C27: resolve_city_centroid returns the coordinates of a table entry
\* whenever one matches the UF and city, exactly or else ignoring accents and
\* case; with no such entry, the average of the coordinates of the stores of
\* that UF and city, matched exactly or, when no exactly matched store has
\* coordinates, ignoring accents and case; and not-found only when there is
\* neither, or when the UF or the city is empty.
CentroidResolution ==
    last_op = "resolve_city_centroid" =>
        LET uf == result.uf
            city == result.city
            c == result.centroid
        IN  IF NormalizeUf(uf) = "" \/ NormalizeCity(city) = "" THEN c = None
            ELSE IF TableEntries(uf, city, FALSE) # {}
            THEN IsEntryOf(c, TableEntries(uf, city, FALSE))
            ELSE IF TableEntries(uf, city, TRUE) # {}
            THEN IsEntryOf(c, TableEntries(uf, city, TRUE))
            ELSE IF LocatedStores(uf, city, FALSE) # {}
            THEN IsAverageOf(c, LocatedStores(uf, city, FALSE))
            ELSE IF LocatedStores(uf, city, TRUE) # {}
            THEN IsAverageOf(c, LocatedStores(uf, city, TRUE))
            ELSE c = None

\* A lookup answered from stores matched without accents and case, while a
\* store of exactly that city has no coordinates.
CentroidFromLooselyMatchedStores ==
    /\ last_op = "resolve_city_centroid"
    /\ TableEntries(result.uf, result.city, TRUE) = {}
    /\ LocatedStores(result.uf, result.city, FALSE) = {}
    /\ LocatedStores(result.uf, result.city, TRUE) # {}
    /\ \E s \in StoreIds : StoreDir[s].cidade = NormalizeCity(result.city)
    /\ result.centroid # None

\* The stores that sell every priced item, when no store has two offers for
\* one item.
OneOfferPerItemAndStore(ips) ==
    \A i, j \in 1..Len(ips) :
        (ips[i].item_id = ips[j].item_id /\ ips[i].store_id = ips[j].store_id) => i = j

\* C28: in the app optimizer, when some eligible store has an offer for
\* every priced item (one offer per item and store), the result is a single
\* allocation to the cheapest such store for every max_stores >= 1, with
\* total_cost = total_if_single_store and savings 0, even when two allowed
\* stores together would cost less.
CompleteStoreTakesAll ==
    (/\ GreedyRan
     /\ result.request.max_stores >= 1
     /\ OneOfferPerItemAndStore(result.request.item_prices)
     /\ StoresOfferingAll(result.request.item_prices,
            {p.item_id : p \in Range(result.request.item_prices)}) # {}) =>
        LET ips == result.request.item_prices
            complete == StoresOfferingAll(ips, {p.item_id : p \in Range(ips)})
        IN  /\ Len(result.allocations) = 1
            /\ result.allocations[1].store_id \in complete
            /\ \A s \in complete : result.allocations[1].total <= OfferTotalOf(ips, s)
            /\ AllocatedItemIds = {p.item_id : p \in Range(ips)}
            /\ result.total_cost = result.total_if_single_store
            /\ result.savings = 0

\* A single allocation where two stores, allowed by max_stores, would
\* together cost less.
SplittingWouldCostLess ==
    /\ GreedyRan
    /\ result.request.max_stores >= 2
    /\ Len(result.allocations) = 1
    /\ LET ips == result.request.item_prices
       IN  /\ StoresOfferingAll(ips, {p.item_id : p \in Range(ips)}) # {}
           /\ \E pair \in SUBSET {p.store_id : p \in Range(ips)} :
                 /\ Cardinality(pair) = 2
                 /\ CostIn(ips, pair) < result.total_cost

\* C29: on the same offers and max_stores (at most 15 stores, max_stores 1
\* to 3) the greedy allocation covers as many items as the bounded exact
\* search: if some set of at most max_stores stores together has an offer
\* for every priced item, greedy leaves no item outside the selected stores.
GreedyCoversWhatExactCovers ==
    (/\ GreedyRan
     /\ result.request.max_stores \in 1..ExactMaxStores
     /\ Cardinality({p.store_id : p \in Range(result.request.item_prices)})
            <= ExactMaxCandidates) =>
        LET ips == result.request.item_prices
            priced == {p.item_id : p \in Range(ips)}
        IN  (\E set \in SUBSET {p.store_id : p \in Range(ips)} :
                /\ Cardinality(set) \in 1..result.request.max_stores
                /\ CoveredBy(ips, set) = priced)
            => /\ AllocatedItemIds = priced
               /\ result.items_outside_selected_stores = <<>>

\* The largest number of priced items one store sells.
BestSingleCoverage(ips) ==
    SetMax({Cardinality(CoveredBy(ips, {s})) : s \in {p.store_id : p \in Range(ips)}})

\* C29 amended: greedy allocates at least as many items as the best single
\* store sells, which with max_stores = 1 is what the bounded exact search
\* allocates; and if one store has an offer for every priced item, greedy
\* leaves no item outside the selected stores.
GreedyCoversWhatOneStoreCovers ==
    (/\ GreedyRan
     /\ result.request.max_stores \in 1..ExactMaxStores
     /\ Cardinality({p.store_id : p \in Range(result.request.item_prices)})
            <= ExactMaxCandidates) =>
        LET ips == result.request.item_prices
            priced == {p.item_id : p \in Range(ips)}
        IN  /\ Cardinality(AllocatedItemIds) >= BestSingleCoverage(ips)
            /\ result.request.max_stores = 1 =>
                  Cardinality(AllocatedItemIds) =
                      Cardinality(CoveredBy(ips, BestSetOf(ips, 1)))
            /\ BestSingleCoverage(ips) = Cardinality(priced) =>
                  /\ AllocatedItemIds = priced
                  /\ result.items_outside_selected_stores = <<>>

\* One store allowed, no store sells every priced item, and greedy allocates
\* exactly the items of a store that sells the most of them.
GreedyMatchesExactWithOneStore ==
    /\ GreedyRan
    /\ result.request.max_stores = 1
    /\ LET ips == result.request.item_prices
       IN  /\ BestSingleCoverage(ips) < Cardinality({p.item_id : p \in Range(ips)})
           /\ BestSingleCoverage(ips) >= 2
           /\ Cardinality(AllocatedItemIds) = BestSingleCoverage(ips)
           /\ result.items_outside_selected_stores # <<>>

\* The item-to-store assignment of a response, with prices and subtotals.
AssignmentOf(res) ==
    UNION {{[store_id |-> res.allocations[k].store_id, item_id |-> it.item_id,
             price |-> it.price, subtotal |-> it.subtotal] :
               it \in Range(res.allocations[k].items)} : k \in 1..Len(res.allocations)}

\* C30: get_optimization right after a successful optimize of the generic
\* list, nothing changed in between, returns the same item-to-store
\* assignment with the same prices and subtotals and the same total_cost,
\* total_if_single_store, savings and items_without_price; and
\* get_optimization is refused whenever the list's status is not optimized.
ReadBackReturnsWhatOptimizeReturned ==
    [][/\ (last_op = "optimize" /\ result.success /\ last_op' = "read_back") =>
              /\ ~result'.raised
              /\ AssignmentOf(result') = AssignmentOf(result)
              /\ result'.total_cost = result.total_cost
              /\ result'.total_if_single_store = result.total_if_single_store
              /\ result'.savings = result.savings
              /\ result'.items_without_price = result.items_without_price
       /\ (last_op' = "read_back" /\ shopping_list.status # "optimized") =>
              /\ result'.raised
              /\ result'.message = <<"Lista não foi otimizada">>]_vars

====
